---- MODULE Spec2Model ----
(***************************************************************************)
(* Session and backend-dispatch layer of the chatbot: KnowledgeManager and *)
(* ChatSession (chat_logic.py), LLMHandler (llm_handler.py) and the        *)
(* WebSocket / knowledge endpoints of api_server.py.                       *)
(*                                                                         *)
(* A text is a sequence of string tokens, so that formatting and joining   *)
(* are concatenations that can be compared.                                *)
(***************************************************************************)
EXTENDS Integers, Sequences, FiniteSets, TLC

VARIABLES
    config,         \* config.json as read by ChatSession / LLMHandler, with the environment flag
    store,          \* the content of knowledge.json, as JSON tokens (empty: no file)
    chat_sessions,  \* api_server.chat_sessions: client id -> ChatSession
    conn,           \* per client id: number of WebSocket handler loops running
    gen,            \* the generate_response call in flight (messages passed to the backend)
    added,          \* number of knowledge entries added so far
    log,            \* per client id: non-system messages appended since the last clear
    last,           \* the operation that produced this state, with its result
    limits,         \* the caps of the run: handler loops per client id, messages, adds
    constructed,    \* per client id: ChatSession objects websocket_endpoint has constructed
    wrote,          \* outcome of the last write of the knowledge document
    addlog,         \* the adds held in memory (mem) and in knowledge.json (file), in order
    km,             \* a KnowledgeManager used on its own: its knowledge
    accepting,      \* per client id: handlers waiting in `await websocket.accept()`
    max_items_arg,  \* the max_items argument of the last format_for_prompt call
    io,             \* what the last step put on the wire: messages sent on the
                    \* WebSocket, and the request made to the backend
    ui              \* the ChatbotUI of a desktop process: its flags, its buttons, its
                    \* threads and the callbacks queued for the Tk main loop

vars == <<config, store, chat_sessions, conn, gen, added, log, last,
          limits, constructed, wrote, addlog, km, accepting, max_items_arg, io, ui>>

(***************************** bounds **************************************)
MaxHist == 2
MaxLog == 4
MaxServerLog == 3
MaxConns == 2
MaxRaceLog == 2
MaxStoreLog == 2
MaxStoreAdds == 2
MaxAdds == 3
MaxArg == 2
MaxLoads == 2
MaxMsgs == 2
MaxEnvLog == 2
MaxSends == 2
MaxText == 3
MaxLines == 3

Clients == {"c1", "c2"}
Inputs == <<"a", "b", "c", "d", "e", "f", "g", "h">>
NewItems == <<"n1">>
NoCategory == ""
Categories == {"facts"}
KnowledgeCategories == {"facts", "tips"}
StoreItems == <<"n1", "n2", "n3", "n4">>

(************************** knowledge base *********************************)
EmptyDoc == [general |-> <<>>, categories |-> <<>>]

SomeDoc == [general |-> <<"g1", "g2", "g3", "g4">>,
            categories |-> << [name |-> "facts", items |-> <<"f1", "f2">>] >>]

InitDocs == {EmptyDoc, SomeDoc}

MaxItems == 5

BucketNames(k) == {k.categories[i].name : i \in DOMAIN k.categories}

BucketIndex(k, category) ==
    CHOOSE i \in DOMAIN k.categories : k.categories[i].name = category

RECURSIVE AllBuckets(_)
AllBuckets(cats) ==
    IF cats = <<>> THEN <<>> ELSE Head(cats).items \o AllBuckets(Tail(cats))

\* get_knowledge listing the category buckets ahead of general
get_knowledge_buckets_first(k, category) ==
    IF category # NoCategory /\ category \in BucketNames(k)
    THEN k.categories[BucketIndex(k, category)].items
    ELSE IF category # NoCategory
    THEN <<>>
    ELSE AllBuckets(k.categories) \o k.general

get_knowledge(k, category) ==
    IF category # NoCategory /\ category \in BucketNames(k)
    THEN k.categories[BucketIndex(k, category)].items
    ELSE IF category # NoCategory
    THEN <<>>
    ELSE k.general \o AllBuckets(k.categories)

RECURSIVE NumberedLines(_, _)
NumberedLines(items, i) ==
    IF items = <<>> THEN <<>>
    ELSE <<ToString(i), ". ", Head(items), "\n">> \o NumberedLines(Tail(items), i + 1)

LeadIn == <<"Here is important information you should know:", "\n\n">>

\* format_for_prompt keeping the latest max_items entries
format_for_prompt_latest(k, category, max_items) ==
    LET all == get_knowledge(k, category)
        knowledge_items == IF Len(all) > max_items
                           THEN SubSeq(all, Len(all) - max_items + 1, Len(all))
                           ELSE all
    IN  IF knowledge_items = <<>> THEN <<>>
        ELSE LeadIn \o NumberedLines(knowledge_items, 1)

format_for_prompt(k, category, max_items) ==
    LET all == get_knowledge(k, category)
        knowledge_items == IF Len(all) > max_items
                           THEN IF max_items >= 0 THEN SubSeq(all, 1, max_items)
                                ELSE SubSeq(all, 1, Len(all) + max_items)
                           ELSE all
    IN  IF knowledge_items = <<>> THEN <<>>
        ELSE LeadIn \o NumberedLines(knowledge_items, 1)

\* add_knowledge keeping only the new entry in its bucket
add_knowledge_overwrite(k, content, category) ==
    IF category # NoCategory
    THEN LET k1 == IF category \in BucketNames(k) THEN k
                   ELSE [k EXCEPT !.categories = Append(@, [name |-> category, items |-> <<>>])]
             i == BucketIndex(k1, category)
         IN  [k1 EXCEPT !.categories[i].items = <<content>>]
    ELSE [k EXCEPT !.general = <<content>>]

add_knowledge(k, content, category) ==
    IF category # NoCategory
    THEN LET k1 == IF category \in BucketNames(k) THEN k
                   ELSE [k EXCEPT !.categories = Append(@, [name |-> category, items |-> <<>>])]
             i == BucketIndex(k1, category)
         IN  [k1 EXCEPT !.categories[i].items = Append(@, content)]
    ELSE [k EXCEPT !.general = Append(@, content)]

\* the id add_knowledge computes once the entry is appended: k is the
\* knowledge base holding the new entry
knowledge_id_len(k, category) ==
    IF category # NoCategory
    THEN <<category, "_", ToString(Len(k.categories[BucketIndex(k, category)].items))>>
    ELSE <<"general", "_", ToString(Len(k.general))>>

knowledge_id(k, category) ==
    IF category # NoCategory
    THEN <<category, "_", ToString(Len(k.categories[BucketIndex(k, category)].items) - 1)>>
    ELSE <<"general", "_", ToString(Len(k.general) - 1)>>

(*************************** persistence ***********************************)
\* A JSON document is a sequence of tokens: strings and punctuation.
Str(v) == [punct |-> FALSE, v |-> v]
Pun(v) == [punct |-> TRUE, v |-> v]

NoFile == <<>>

JsonList(items) ==
    <<Pun("[")>> \o [i \in 1..Len(items) |-> Str(items[i])] \o <<Pun("]")>>

RECURSIVE JsonBuckets(_)
JsonBuckets(cats) ==
    IF cats = <<>> THEN <<>>
    ELSE <<Str(Head(cats).name)>> \o JsonList(Head(cats).items) \o JsonBuckets(Tail(cats))

\* save_knowledge writing the general list only
save_knowledge_general(k) ==
    <<Pun("{"), Str("general")>> \o JsonList(k.general)
        \o <<Str("categories"), Pun("{"), Pun("}"), Pun("}")>>

\* json.dump of {"general": [...], "categories": {name: [...], ...}}
save_knowledge(k) ==
    <<Pun("{"), Str("general")>> \o JsonList(k.general)
        \o <<Str("categories"), Pun("{")>> \o JsonBuckets(k.categories)
        \o <<Pun("}"), Pun("}")>>

\* position of the first "]" at or after i, 0 when there is none
RECURSIVE CloseOf(_, _)
CloseOf(f, i) ==
    IF i > Len(f) THEN 0 ELSE IF f[i] = Pun("]") THEN i ELSE CloseOf(f, i + 1)

\* the strings between the "[" at i and the "]" at j
ReadItems(f, i, j) == [n \in 1..(j - i - 1) |-> f[i + n].v]

NoBuckets == [ok |-> FALSE, categories |-> <<>>, next |-> 0]

RECURSIVE ReadBuckets(_, _)
ReadBuckets(f, i) ==
    IF i > Len(f) THEN NoBuckets
    ELSE IF f[i] = Pun("}") THEN [ok |-> TRUE, categories |-> <<>>, next |-> i + 1]
    ELSE IF f[i].punct \/ i + 1 > Len(f) THEN NoBuckets
    ELSE IF f[i + 1] # Pun("[") \/ CloseOf(f, i + 2) = 0 THEN NoBuckets
    ELSE LET j == CloseOf(f, i + 2)
             rest == ReadBuckets(f, j + 1)
         IN  [ok |-> rest.ok,
              categories |-> <<[name |-> f[i].v, items |-> ReadItems(f, i + 1, j)]>>
                                \o rest.categories,
              next |-> rest.next]

\* json.load of the file; a missing or malformed file gives the empty knowledge base
_load_knowledge(f) ==
    IF Len(f) < 3 THEN EmptyDoc
    ELSE IF f[1] # Pun("{") \/ f[2] # Str("general") \/ f[3] # Pun("[") THEN EmptyDoc
    ELSE LET j == CloseOf(f, 4)
         IN  IF j = 0 \/ j + 2 > Len(f) THEN EmptyDoc
             ELSE IF f[j + 1] # Str("categories") \/ f[j + 2] # Pun("{") THEN EmptyDoc
             ELSE LET b == ReadBuckets(f, j + 3)
                  IN  IF b.ok /\ b.next = Len(f) /\ f[Len(f)] = Pun("}")
                      THEN [general |-> ReadItems(f, 3, j), categories |-> b.categories]
                      ELSE EmptyDoc

InitFiles == {IF d = EmptyDoc THEN NoFile ELSE save_knowledge(d) : d \in InitDocs}

(***************************** LLM handler *********************************)
\* a handler built from the flags of the configuration file alone
LLMHandler_as_configured(cfg) ==
    [is_production |-> FALSE,
     use_ollama |-> cfg.use_ollama,
     use_llama_cpp |-> cfg.use_llama_cpp,
     use_huggingface_api |-> cfg.use_huggingface_api,
     system_prompt |-> cfg.system_prompt,
     tokenizer |-> FALSE,
     pipe |-> FALSE,
     llama_cpp_model |-> FALSE,
     load_calls |-> 0,
     loaded |-> FALSE,
     prepared |-> ""]

LLMHandler(cfg) ==
    [is_production |-> cfg.production,
     use_ollama |-> IF cfg.production THEN FALSE ELSE cfg.use_ollama,
     use_llama_cpp |-> IF cfg.production THEN FALSE ELSE cfg.use_llama_cpp,
     use_huggingface_api |-> IF cfg.production THEN TRUE ELSE cfg.use_huggingface_api,
     system_prompt |-> cfg.system_prompt,
     tokenizer |-> FALSE,
     pipe |-> FALSE,
     llama_cpp_model |-> FALSE,
     load_calls |-> 0,
     loaded |-> FALSE,
     prepared |-> ""]

\* The branch generate_response takes: lines 190-197.
Kind(h) ==
    IF h.is_production \/ h.use_huggingface_api THEN "hosted_api"
    ELSE IF h.use_llama_cpp THEN "native_binding"
    ELSE IF h.use_ollama THEN "local_daemon"
    ELSE "in_process_model"

\* The branch of load_model with the daemon asked before the model file.
LoadKind_daemon_first(h) ==
    IF h.is_production \/ h.use_huggingface_api THEN "hosted_api"
    ELSE IF h.use_ollama THEN "local_daemon"
    ELSE IF h.use_llama_cpp THEN "native_binding"
    ELSE "in_process_model"

\* The branch load_model takes: lines 111, 121, 153, 162.
LoadKind(h) ==
    IF h.is_production \/ h.use_huggingface_api THEN "hosted_api"
    ELSE IF h.use_llama_cpp THEN "native_binding"
    ELSE IF h.use_ollama THEN "local_daemon"
    ELSE "in_process_model"

(* What the environment answers to a load_model call: "ready" (key set, file
   loads, daemon reachable with the model, pipeline builds) makes it return
   True, "failed" and "partial" False; on "partial" the in-process kind got
   its tokenizer before the pipeline failed to build. *)
LoadOutcomes == {"ready", "partial", "failed"}
Outcome(ok) == IF ok THEN "ready" ELSE "failed"

\* load_calls counts the calls, loaded tells whether one has returned True and
\* prepared which branch the last call took.
load_model(h, o) ==
    LET h1 == [h EXCEPT !.load_calls = @ + 1, !.loaded = @ \/ (o = "ready"),
                        !.prepared = LoadKind(h)]
    IN  IF LoadKind(h) = "native_binding" /\ o = "ready"
        THEN [h1 EXCEPT !.llama_cpp_model = TRUE]
        ELSE IF LoadKind(h) = "in_process_model" /\ o = "ready"
        THEN [h1 EXCEPT !.tokenizer = TRUE, !.pipe = TRUE]
        ELSE IF LoadKind(h) = "in_process_model" /\ o = "partial"
        THEN [h1 EXCEPT !.tokenizer = TRUE]
        ELSE h1

(* What one exchange with the backend gives: fault is an exception raised by
   the request or the model call (key names it); otherwise status is the HTTP
   status and shape, key, text describe the decoded body, or lines the body
   of the daemon line by line. *)
Exchange(fault, status, shape, key, text, lines) ==
    [fault |-> fault, status |-> status, shape |-> shape, key |-> key, text |-> text,
     lines |-> lines]

Fault(key) == Exchange(TRUE, 0, "", key, <<>>, <<>>)
Body(shape, key, text) == Exchange(FALSE, 200, shape, key, text, <<>>)
BadStatus == Exchange(FALSE, 500, "", "", <<>>, <<>>)
NoExchange == Exchange(FALSE, 0, "none", "", <<>>, <<>>)

\* one line of a daemon body: does it parse as JSON, does it carry message.content
Line(json, carries, content) == [json |-> json, carries |-> carries, content |-> content]
BodyLines(lines) == Exchange(FALSE, 200, "lines", "", <<>>, lines)

Returned(text) == [raised |-> FALSE, text |-> text, called |-> FALSE, request |-> <<>>]
Raised(detail) == [raised |-> TRUE, text |-> detail, called |-> FALSE, request |-> <<>>]

\* the result of a path that issued its call to the backend
After(request, r) == [r EXCEPT !.called = TRUE, !.request = request]

\* history: the caller's message list as the call leaves it
\* generate_response building the pipeline it finds missing
Leaves_loading(h, messages, r) ==
    [raised |-> r.raised, text |-> r.text, called |-> r.called, request |-> r.request,
     history |-> messages, handler |-> [h EXCEPT !.tokenizer = TRUE, !.pipe = TRUE]]

\* history and handler: the caller's message list and the handler as the
\* call leaves them
Leaves(h, messages, r) ==
    [raised |-> r.raised, text |-> r.text, called |-> r.called, request |-> r.request,
     history |-> messages, handler |-> h]

Sorry(detail) == <<"Sorry, an error occurred while generating a response: ", detail>>
NotLoaded == "Model not loaded, please call load_model() first"
Trouble == <<"I'm having trouble generating a response right now. Please try again later.">>

WithSystem(h, messages) ==
    IF messages = <<>> \/ messages[1].role # "system"
    THEN <<[role |-> "system", content |-> <<h.system_prompt>>]>> \o messages
    ELSE messages

RECURSIVE LastUser(_)
LastUser(messages) ==
    IF messages = <<>> THEN <<>>
    ELSE IF messages[Len(messages)].role = "user" THEN messages[Len(messages)].content
    ELSE LastUser(SubSeq(messages, 1, Len(messages) - 1))

\* What the backend generates for a request.
Reply(messages) == <<"re:">> \o LastUser(messages)

(* texts are sequences of tokens; " " and "\n" are whitespace *)
Delimiter == "[/INST]"
Whitespace == {" ", "\n"}

Contains(text, token) == \E i \in DOMAIN text : text[i] = token

\* str.split(token, 1)[1]: what follows the first occurrence
AfterFirst(text, token) ==
    LET i == CHOOSE k \in DOMAIN text :
                 text[k] = token /\ \A j \in 1..(k - 1) : text[j] # token
    IN  SubSeq(text, i + 1, Len(text))

RECURSIVE lstrip(_)
lstrip(text) ==
    IF text # <<>> /\ Head(text) \in Whitespace THEN lstrip(Tail(text)) ELSE text

RECURSIVE rstrip(_)
rstrip(text) ==
    IF text # <<>> /\ text[Len(text)] \in Whitespace
    THEN rstrip(SubSeq(text, 1, Len(text) - 1)) ELSE text

strip_none(text) == text

strip(text) == rstrip(lstrip(text))

\* lines 375-377 and 382-384
without_prompt_artifacts(generated_text) ==
    IF Contains(generated_text, Delimiter)
    THEN strip(AfterFirst(generated_text, Delimiter))
    ELSE generated_text

\* the prompt of the hosted API built from the first message, not the last
huggingface_prompt_first(system_msg, messages) ==
    <<"<s>[INST] ">> \o system_msg \o <<" [/INST]</s>\n<s>[INST] ">>
        \o (LET users == SelectSeq(messages, LAMBDA m : m.role = "user")
            IN  IF users = <<>> THEN <<>> ELSE users[1].content)
        \o <<" [/INST]">>

\* line 340
huggingface_prompt(system_msg, messages) ==
    <<"<s>[INST] ">> \o system_msg \o <<" [/INST]</s>\n<s>[INST] ">>
        \o LastUser(messages) \o <<" [/INST]">>

\* lines 358-393: the text taken from the response
huggingface_result(b) ==
    IF b.status # 200
    THEN Returned(<<"Error generating response: ", "HuggingFace API returned an error">>)
    ELSE IF b.shape = "not_json" THEN Returned(Sorry("JSONDecodeError"))
    ELSE IF b.shape = "string" THEN Returned(b.text)
    ELSE IF b.shape = "list_string" THEN Returned(b.text)
    ELSE IF b.shape = "list_dict" /\ b.key = "generated_text"
    THEN Returned(without_prompt_artifacts(b.text))
    ELSE IF b.shape = "dict" /\ b.key = "generated_text"
    THEN Returned(without_prompt_artifacts(b.text))
    ELSE Returned(Trouble)

_generate_with_huggingface_api(h, messages, b) ==
    LET msgs == WithSystem(h, messages)
    IN  IF LastUser(msgs) = <<>> THEN Returned(<<"No user message found to respond to.">>)
        ELSE After(huggingface_prompt(msgs[1].content, msgs),
                   IF b.fault THEN Returned(Sorry(b.key)) ELSE huggingface_result(b))

_generate_with_llama_cpp(h, messages, b) ==
    IF ~h.llama_cpp_model THEN Returned(Sorry(NotLoaded))
    ELSE After(<<"create_chat_completion">>,
               IF b.fault THEN Returned(Sorry(b.key))
               ELSE IF b.shape = "choices" THEN Returned(b.text)
               ELSE Returned(<<"Unable to generate response">>))

\* response.json() succeeds on a body that is one JSON document
Decodable(lines) == Len(lines) = 1 /\ lines[1].json

ExcerptLen == 200

\* response.text[:200], the body counted line by line
Excerpt(lines) == SubSeq(lines, 1, IF Len(lines) < ExcerptLen THEN Len(lines) ELSE ExcerptLen)

ParsingError(lines) ==
    <<"API response parsing error, original response: ">>
        \o [i \in DOMAIN Excerpt(lines) |-> IF Excerpt(lines)[i].json THEN "{json}" ELSE "text"]
        \o <<"...">>

\* lines 260-283: the text taken from a daemon response of status 200
ollama_result(lines) ==
    IF Decodable(lines)
    THEN IF lines[1].carries THEN Returned(lines[1].content) ELSE Returned(Sorry("'message'"))
    ELSE IF lines # <<>> /\ lines[Len(lines)].json /\ lines[Len(lines)].carries
    THEN Returned(lines[Len(lines)].content)
    ELSE Returned(ParsingError(lines))

_generate_with_ollama(h, messages, b) ==
    After(<<"POST /api/chat">>,
          IF b.fault THEN Returned(Sorry(b.key))
          ELSE IF b.status # 200
          THEN Returned(<<"Error generating response: ", "Ollama API returned an error">>)
          ELSE ollama_result(b.lines))

_generate_with_transformers(h, messages, b) ==
    IF ~h.pipe THEN Raised(<<NotLoaded>>)
    ELSE After(<<"pipe">>,
               IF b.fault \/ b.shape # "generated_text"
               THEN Returned(<<"Sorry, an error occurred while generating a response.">>)
               ELSE Returned(b.text))

generate_response(h, messages, b) ==
    Leaves(h, messages,
           IF h.is_production \/ h.use_huggingface_api
           THEN _generate_with_huggingface_api(h, messages, b)
           ELSE IF h.use_llama_cpp THEN _generate_with_llama_cpp(h, messages, b)
           ELSE IF h.use_ollama THEN _generate_with_ollama(h, messages, b)
           ELSE _generate_with_transformers(h, messages, b))

\* The exchanges a turn of the server is checked with: the backend answers
\* the request, the request fails, the status is an error, the body is of
\* no known shape.
Behaviours(h, messages) ==
    LET text == Reply(WithSystem(h, messages))
    IN  IF Kind(h) = "hosted_api"
        THEN {Body("list_dict", "generated_text", text), Fault("connection error"), BadStatus,
              Body("dict", "other", <<>>)}
        ELSE IF Kind(h) = "native_binding"
        THEN {Body("choices", "", text), Fault("llama-cpp error"), Body("no_choices", "", <<>>)}
        ELSE IF Kind(h) = "local_daemon"
        THEN {BodyLines(<<Line(TRUE, TRUE, text)>>), Fault("connection error"), BadStatus,
              BodyLines(<<Line(FALSE, FALSE, <<>>)>>)}
        ELSE {Body("generated_text", "", text), Fault("pipeline error")}

(***************************** chat session ********************************)
Message(role, content) == [role |-> role, content |-> content]

\* Python's lst[-n:] : the whole list when n = 0.
LastN(lst, n) ==
    IF n = 0 \/ n >= Len(lst) THEN lst ELSE SubSeq(lst, Len(lst) - n + 1, Len(lst))

\* update_system_prompt with the test for an existing system message lost.
update_system_prompt_insert(s, category) ==
    LET knowledge_text == format_for_prompt(s.knowledge, category, MaxItems)
        system_prompt == IF knowledge_text # <<>>
                         THEN <<s.system_prompt, "\n\n">> \o knowledge_text
                         ELSE <<s.system_prompt>>
    IN  <<[role |-> "system", content |-> system_prompt]>> \o s.chat_history

update_system_prompt(s, category) ==
    LET base_prompt == <<s.system_prompt>>
        knowledge_text == format_for_prompt(s.knowledge, category, MaxItems)
        system_prompt == IF knowledge_text # <<>>
                         THEN base_prompt \o <<"\n\n">> \o knowledge_text
                         ELSE base_prompt
    IN  IF s.chat_history # <<>> /\ s.chat_history[1].role = "system"
        THEN [s.chat_history EXCEPT ![1].content = system_prompt]
        ELSE <<Message("system", system_prompt)>> \o s.chat_history

\* add_message trimming from the wrong end: keeps the oldest messages.
add_message_keep_oldest(s, role, content) ==
    LET h == Append(s.chat_history, [role |-> role, content |-> content])
    IN  IF Len(h) > s.max_history + 1 THEN SubSeq(h, 1, s.max_history + 1) ELSE h

add_message(s, role, content) ==
    LET h == Append(s.chat_history, Message(role, content))
    IN  IF Len(h) > s.max_history + 1
        THEN IF h[1].role = "system"
             THEN <<h[1]>> \o LastN(h, s.max_history)
             ELSE LastN(h, s.max_history)
        ELSE h

\* clear_history that always rebuilds the prompt from all knowledge.
clear_history_recompute(s) ==
    LET knowledge_text == format_for_prompt(s.knowledge, NoCategory, MaxItems)
    IN  <<[role |-> "system",
           content |-> IF knowledge_text # <<>>
                       THEN <<s.system_prompt, "\n\n">> \o knowledge_text
                       ELSE <<s.system_prompt>>]>>

clear_history(s) ==
    IF s.chat_history # <<>> /\ s.chat_history[1].role = "system"
    THEN <<Message("system", s.chat_history[1].content)>>
    ELSE update_system_prompt([s EXCEPT !.chat_history = <<>>], NoCategory)

ChatSession(cfg, file) ==
    LET s == [chat_history |-> <<>>,
              max_history |-> cfg.max_history,
              system_prompt |-> cfg.system_prompt,
              knowledge |-> _load_knowledge(file),
              env_config |-> [production |-> cfg.production],
              llm_handler |-> LLMHandler(cfg)]
    IN  [s EXCEPT !.chat_history = update_system_prompt(s, NoCategory)]

\* get_response that never recomputes the prompt for the category.
get_response_call_no_update(s, user_input, category) ==
    [s EXCEPT !.chat_history = add_message(s, "user", user_input)]

\* get_response rebuilding the prompt on every turn, categorized or not
get_response_call_always_update(s, user_input, category) ==
    LET s1 == [s EXCEPT !.chat_history = update_system_prompt(s, category)]
    IN  [s1 EXCEPT !.chat_history = add_message(s1, "user", user_input)]

\* get_response up to the call of generate_response.
get_response_call(s, user_input, category) ==
    LET s1 == IF category # NoCategory
              THEN [s EXCEPT !.chat_history = update_system_prompt(s, category)]
              ELSE s
    IN  [s1 EXCEPT !.chat_history = add_message(s1, "user", user_input)]

\* get_response from the return of generate_response.
get_response_return(s, response) ==
    [s EXCEPT !.chat_history = add_message(s, "assistant", response)]

(****************************** state **************************************)
NoGen == [active |-> FALSE, client |-> "", category |-> "", messages |-> <<>>]

\* a message sent on the WebSocket
Out(type, content) == [type |-> type, content |-> content]

\* sent: the messages sent on the WebSocket; called, request, response: the
\* exchange with the backend, if the step made one
IO(sent, called, request, response) ==
    [sent |-> sent, called |-> called, request |-> request, response |-> response]

NoIO == IO(<<>>, FALSE, <<>>, NoExchange)

\* dropped: how many messages the operation removed from the session's history.
Op(name, c, category, raised, text, dropped) ==
    [op |-> name, client |-> c, category |-> category, raised |-> raised, text |-> text,
     dropped |-> dropped]

Configs ==
    {[max_history |-> m, system_prompt |-> "S", production |-> f[1],
      use_huggingface_api |-> f[2], use_llama_cpp |-> f[3], use_ollama |-> f[4]] :
        m \in 0..MaxHist,
        f \in {<<TRUE, FALSE, FALSE, TRUE>>, <<FALSE, FALSE, TRUE, TRUE>>,
               <<FALSE, FALSE, FALSE, TRUE>>, <<FALSE, FALSE, FALSE, FALSE>>}}

\* conns: handler loops the run opens per client id; log: messages the run
\* appends in all; items: the contents the run's add requests carry, in order.
Limits(conns, msgs, items) == [conns |-> conns, log |-> msgs, items |-> items]

\* no desktop window: the process is the server, or objects used directly
NoUI ==
    [present |-> FALSE, is_model_loaded |-> FALSE, is_generating |-> FALSE,
     send_button |-> "normal", load_button |-> "normal", notice |-> "", loading |-> FALSE,
     threads |-> <<>>, after |-> <<>>, sends |-> 0, cleared |-> FALSE]

Silent ==
    /\ conn = [c \in Clients |-> 0]
    /\ accepting = [c \in Clients |-> 0]
    /\ constructed = [c \in Clients |-> 0]
    /\ gen = NoGen
    /\ added = 0
    /\ log = [c \in Clients |-> <<>>]
    /\ last = Op("init", "", NoCategory, FALSE, <<>>, 0)
    /\ wrote = "none"
    /\ addlog = [mem |-> <<>>, file |-> <<>>]
    /\ max_items_arg = MaxItems
    /\ io = NoIO

Quiet ==
    /\ Silent
    /\ ui = NoUI

Init ==
    /\ config \in Configs
    /\ store \in InitFiles
    /\ chat_sessions = <<>>
    /\ limits = Limits(1, MaxServerLog, NewItems)
    /\ km = EmptyDoc
    /\ Quiet

Live == DOMAIN chat_sessions

RECURSIVE TotalLog(_)
TotalLog(cs) ==
    IF cs = {} THEN 0
    ELSE LET c == CHOOSE x \in cs : TRUE IN Len(log[c]) + TotalLog(cs \ {c})

(************************ operations of one session ************************)
Initialize(c) ==
    /\ ~gen.active
    /\ c \in Live
    /\ chat_sessions[c].llm_handler.load_calls < MaxLoads
    /\ \E ok \in BOOLEAN :
         /\ chat_sessions' = [chat_sessions EXCEPT ![c].llm_handler = load_model(@, Outcome(ok))]
         /\ last' = Op("initialize", c, NoCategory, ~ok, <<>>, 0)
    /\ UNCHANGED <<config, store, conn, gen, added, log>>
    /\ UNCHANGED <<limits, accepting, constructed, wrote, addlog, km, max_items_arg, ui>>
    /\ io' = NoIO

GetResponseCall(c, category) ==
    /\ ~gen.active
    /\ c \in Live
    /\ TotalLog(Clients) + 2 <= limits.log
    /\ LET user_input == <<Inputs[Len(log[c]) + 1]>>
           s == get_response_call(chat_sessions[c], user_input, category)
       IN  /\ chat_sessions' = [chat_sessions EXCEPT ![c] = s]
           /\ gen' = [active |-> TRUE, client |-> c, category |-> category,
                      messages |-> s.chat_history]
           /\ log' = [log EXCEPT ![c] = Append(@, Message("user", user_input))]
           /\ last' = Op("get_response_call", c, category, FALSE, user_input,
                          Len(chat_sessions[c].chat_history) + 1 - Len(s.chat_history))
    /\ UNCHANGED <<config, store, conn, added>>
    /\ UNCHANGED <<limits, accepting, constructed, wrote, addlog, km, max_items_arg, ui>>
    /\ io' = NoIO

\* generate_response returns or raises; a raise ends the handler loop that
\* called it, and a handler loop that got the text sends it as the reply.
GenerateReturn(c) ==
    /\ gen.active
    /\ gen.client = c
    /\ \E b \in Behaviours(chat_sessions[c].llm_handler, gen.messages) :
         LET r == generate_response(chat_sessions[c].llm_handler, gen.messages, b)
         IN  IF r.raised
             THEN /\ conn' = [conn EXCEPT ![c] = IF @ > 0 THEN @ - 1 ELSE @]
                  /\ last' = Op("get_response", c, gen.category, TRUE, r.text, 0)
                  /\ io' = IO(<<>>, r.called, r.request, IF r.called THEN b ELSE NoExchange)
                  /\ chat_sessions' = [chat_sessions EXCEPT ![c].chat_history = r.history,
                                                           ![c].llm_handler = r.handler]
                  /\ UNCHANGED log
             ELSE /\ chat_sessions' =
                        [chat_sessions EXCEPT ![c] =
                            get_response_return([@ EXCEPT !.chat_history = r.history,
                                                          !.llm_handler = r.handler], r.text)]
                  /\ log' = [log EXCEPT ![c] = Append(@, Message("assistant", r.text))]
                  /\ last' = Op("get_response", c, gen.category, FALSE, r.text,
                                 Len(chat_sessions[c].chat_history) + 1
                                   - Len(get_response_return(chat_sessions[c], r.text).chat_history))
                  /\ io' = IO(IF conn[c] > 0 THEN <<Out("chat", r.text)>> ELSE <<>>,
                              r.called, r.request, IF r.called THEN b ELSE NoExchange)
                  /\ UNCHANGED conn
    /\ gen' = NoGen
    /\ UNCHANGED <<config, store, added>>
    /\ UNCHANGED <<limits, accepting, constructed, wrote, addlog, km, max_items_arg, ui>>

AddMessage(c, role) ==
    /\ ~gen.active
    /\ c \in Live
    /\ TotalLog(Clients) < limits.log
    /\ LET content == <<Inputs[Len(log[c]) + 1]>>
       IN  /\ chat_sessions' = [chat_sessions EXCEPT ![c].chat_history =
                                    add_message(chat_sessions[c], role, content)]
           /\ log' = [log EXCEPT ![c] = Append(@, Message(role, content))]
           /\ last' = Op("add_message", c, NoCategory, FALSE, content,
                          Len(chat_sessions[c].chat_history) + 1
                            - Len(add_message(chat_sessions[c], role, content)))
    /\ UNCHANGED <<config, store, conn, gen, added>>
    /\ UNCHANGED <<limits, accepting, constructed, wrote, addlog, km, max_items_arg, ui>>
    /\ io' = NoIO

UpdateSystemPrompt(c, category) ==
    /\ ~gen.active
    /\ c \in Live
    /\ chat_sessions' = [chat_sessions EXCEPT ![c].chat_history =
                             update_system_prompt(chat_sessions[c], category)]
    /\ last' = Op("update_system_prompt", c, category, FALSE, <<>>, 0)
    /\ UNCHANGED <<config, store, conn, gen, added, log>>
    /\ UNCHANGED <<limits, accepting, constructed, wrote, addlog, km, max_items_arg, ui>>
    /\ io' = NoIO

ClearHistory(c) ==
    /\ ~gen.active
    /\ c \in Live
    /\ chat_sessions' = [chat_sessions EXCEPT ![c].chat_history = clear_history(chat_sessions[c])]
    /\ log' = [log EXCEPT ![c] = <<>>]
    /\ last' = Op("clear_history", c, NoCategory, FALSE, <<>>,
                Len(chat_sessions[c].chat_history) - 1)
    /\ io' = IO(IF conn[c] > 0 THEN <<Out("status", <<"Chat history cleared">>)>> ELSE <<>>,
                FALSE, <<>>, NoExchange)
    /\ UNCHANGED <<config, store, conn, gen, added>>
    /\ UNCHANGED <<limits, accepting, constructed, wrote, addlog, km, max_items_arg, ui>>

(************************* operations of the server ************************)
\* `if client_id not in chat_sessions`
NeedsSession_always(sessions, c) == TRUE

NeedsSession(sessions, c) == c \notin DOMAIN sessions

LoadStatus_success(load_status) == <<"Model loaded successfully, ready to chat!">>

LoadStatus(load_status) ==
    IF load_status THEN <<"Model loaded successfully, ready to chat!">>
    ELSE <<"Model loading failed!">>

\* websocket_endpoint from the return of accept() to its first receive: the
\* membership test, the construction and initialize() run with no await between.
OpenSession(c) ==
    /\ conn' = [conn EXCEPT ![c] = @ + 1]
    /\ IF NeedsSession(chat_sessions, c)
       THEN /\ \E ok \in BOOLEAN :
                 LET s == ChatSession(config, store)
                 IN  /\ chat_sessions' =
                            (c :> [s EXCEPT !.llm_handler = load_model(@, Outcome(ok))]) @@ chat_sessions
                     /\ last' = Op("connect", c, NoCategory, ~ok, <<"status">>, 0)
                     /\ io' = IO(<<Out("status", LoadStatus(ok))>>, FALSE, <<>>, NoExchange)
            /\ constructed' = [constructed EXCEPT ![c] = @ + 1]
       ELSE /\ last' = Op("connect", c, NoCategory, FALSE, <<>>, 0)
            /\ io' = NoIO
            /\ UNCHANGED <<chat_sessions, constructed>>

\* websocket_endpoint up to its receive loop, for a client id no other
\* connection is using.
WsConnect(c) ==
    /\ ~gen.active
    /\ conn[c] + accepting[c] < limits.conns
    /\ OpenSession(c)
    /\ UNCHANGED <<config, store, gen, added, log>>
    /\ UNCHANGED <<limits, accepting, wrote, addlog, km, max_items_arg, ui>>

\* A connection arrives: the handler starts and waits in `await websocket.accept()`.
WsAccept(c) ==
    /\ ~gen.active
    /\ conn[c] + accepting[c] < limits.conns
    /\ accepting' = [accepting EXCEPT ![c] = @ + 1]
    /\ last' = Op("accept", c, NoCategory, FALSE, <<>>, 0)
    /\ UNCHANGED <<config, store, chat_sessions, conn, gen, added, log>>
    /\ UNCHANGED <<limits, constructed, wrote, addlog, km, max_items_arg, ui>>
    /\ io' = NoIO

\* The handler resumes after accept().
WsOpen(c) ==
    /\ ~gen.active
    /\ accepting[c] > 0
    /\ accepting' = [accepting EXCEPT ![c] = @ - 1]
    /\ OpenSession(c)
    /\ UNCHANGED <<config, store, gen, added, log>>
    /\ UNCHANGED <<limits, wrote, addlog, km, max_items_arg, ui>>

\* the `finally` block of websocket_endpoint: the session is kept
SessionsAfterClose_drop(sessions, c) == [x \in DOMAIN sessions \ {c} |-> sessions[x]]

SessionsAfterClose(sessions, c) == sessions

\* The client goes away: receive_text raises and the loop ends.
WsDisconnect(c) ==
    /\ ~gen.active
    /\ conn[c] > 0
    /\ conn' = [conn EXCEPT ![c] = @ - 1]
    /\ chat_sessions' = SessionsAfterClose(chat_sessions, c)
    /\ last' = Op("disconnect", c, NoCategory, FALSE, <<>>, 0)
    /\ UNCHANGED <<config, store, gen, added, log>>
    /\ UNCHANGED <<limits, accepting, constructed, wrote, addlog, km, max_items_arg, ui>>
    /\ io' = NoIO

WsChat(c, category) ==
    /\ conn[c] > 0
    /\ GetResponseCall(c, category)

WsClear(c) ==
    /\ conn[c] > 0
    /\ ClearHistory(c)

\* open(path, 'w') in save_knowledge either succeeds or raises
WriteOutcomes == {"ok", "unwritable"}

\* what add_knowledge gives its caller when the write raised
add_result_swallow(id, w) == [raised |-> FALSE, id |-> id]

add_result(id, w) ==
    IF w = "ok" THEN [raised |-> FALSE, id |-> id] ELSE [raised |-> TRUE, id |-> <<>>]

AddRecord(content, category, id) == [content |-> content, category |-> category, id |-> id]

\* POST /api/knowledge
ApiAddKnowledge(content, category, w) ==
    /\ ~gen.active
    /\ added < Len(limits.items)
    /\ content = limits.items[added + 1]
    /\ LET temp_session == ChatSession(config, store)
           k == add_knowledge(temp_session.knowledge, content, category)
           r == add_result(knowledge_id(k, category), w)
       IN  /\ store' = IF w = "ok" THEN save_knowledge(k) ELSE store
           /\ IF r.raised
              THEN UNCHANGED <<chat_sessions, addlog>>
              ELSE /\ chat_sessions' =
                         [c \in Live |->
                             [chat_sessions[c] EXCEPT !.chat_history =
                                 update_system_prompt(chat_sessions[c], NoCategory)]]
                   /\ addlog' = [addlog EXCEPT !.file = Append(@, AddRecord(content, category, r.id))]
           /\ last' = Op("add_knowledge", "", category, r.raised, r.id, 0)
    /\ wrote' = w
    /\ added' = added + 1
    /\ UNCHANGED <<config, conn, gen, log>>
    /\ UNCHANGED <<limits, accepting, constructed, km, max_items_arg, ui>>
    /\ io' = NoIO

\* GET /api/knowledge
ApiGetKnowledge(category) ==
    /\ ~gen.active
    /\ LET temp_session == ChatSession(config, store)
       IN  last' = Op("get_knowledge", "", category, FALSE,
                      get_knowledge(temp_session.knowledge, category), 0)
    /\ UNCHANGED <<config, store, chat_sessions, conn, gen, added, log>>
    /\ UNCHANGED <<limits, accepting, constructed, wrote, addlog, km, max_items_arg, ui>>
    /\ io' = NoIO

Next ==
    \/ \E c \in Clients : WsConnect(c)
    \/ \E c \in Clients : WsDisconnect(c)
    \/ \E c \in Clients, category \in {NoCategory} \cup Categories : WsChat(c, category)
    \/ \E c \in Clients : GenerateReturn(c)
    \/ \E c \in Clients : WsClear(c)
    \/ \E i \in DOMAIN NewItems, category \in {NoCategory} \cup Categories, w \in WriteOutcomes :
          ApiAddKnowledge(NewItems[i], category, w)

Spec == Init /\ [][Next]_vars

(**************** one session driven through its own methods ***************)
InitSession ==
    /\ config \in Configs
    /\ store \in InitFiles
    /\ chat_sessions = ("c1" :> ChatSession(config, store))
    /\ limits = Limits(0, MaxLog, <<>>)
    /\ km = EmptyDoc
    /\ Quiet

NextSession ==
    \/ \E c \in Clients : Initialize(c)
    \/ \E c \in Clients, category \in {NoCategory} \cup Categories : GetResponseCall(c, category)
    \/ \E c \in Clients : GenerateReturn(c)
    \/ \E c \in Clients, role \in {"user", "assistant"} : AddMessage(c, role)
    \/ \E c \in Clients, category \in {NoCategory} \cup Categories : UpdateSystemPrompt(c, category)
    \/ \E c \in Clients : ClearHistory(c)

SpecSession == InitSession /\ [][NextSession]_vars

(************* connections racing on one client id *************************)
InitRace ==
    /\ config \in {c \in Configs : c.max_history = MaxHist}
    /\ store \in InitFiles
    /\ chat_sessions = <<>>
    /\ limits = Limits(MaxConns, MaxRaceLog, <<>>)
    /\ km = EmptyDoc
    /\ Quiet

NextRace ==
    \/ \E c \in Clients : WsAccept(c)
    \/ \E c \in Clients : WsOpen(c)
    \/ \E c \in Clients : WsDisconnect(c)
    \/ \E c \in Clients, category \in {NoCategory} \cup Categories : WsChat(c, category)
    \/ \E c \in Clients : GenerateReturn(c)
    \/ \E c \in Clients : WsClear(c)

SpecRace == InitRace /\ [][NextRace]_vars

(******************* the knowledge endpoints of the server *****************)
InitStore ==
    /\ config \in {c \in Configs : c.max_history = MaxHist /\ c.production}
    /\ store \in {NoFile, save_knowledge(EmptyDoc)}
    /\ chat_sessions = <<>>
    /\ limits = Limits(1, MaxStoreLog, SubSeq(StoreItems, 1, MaxStoreAdds))
    /\ km = EmptyDoc
    /\ Quiet

NextStore ==
    \/ \E c \in Clients : WsConnect(c)
    \/ \E c \in Clients : WsDisconnect(c)
    \/ \E c \in Clients, category \in {NoCategory} \cup Categories : WsChat(c, category)
    \/ \E c \in Clients : GenerateReturn(c)
    \/ \E c \in Clients : WsClear(c)
    \/ \E i \in DOMAIN StoreItems, category \in {NoCategory} \cup Categories,
           w \in WriteOutcomes :
          ApiAddKnowledge(StoreItems[i], category, w)
    \/ \E category \in {NoCategory} \cup Categories : ApiGetKnowledge(category)

SpecStore == InitStore /\ [][NextStore]_vars

(********************* one KnowledgeManager on its own *********************)
\* a file json.load rejects
Malformed == <<Pun("{"), Str("general"), Pun("[")>>

\* what get_knowledge does to self.knowledge: the lookup tests membership
\* with `in` and creates nothing
get_knowledge_effect_setdefault(k, category) ==
    IF category # NoCategory /\ category \notin BucketNames(k)
    THEN [k EXCEPT !.categories = Append(@, [name |-> category, items |-> <<>>])]
    ELSE k

get_knowledge_effect(k, category) == k

KmAdd(content, category, w) ==
    /\ added < Len(limits.items)
    /\ content = limits.items[added + 1]
    /\ LET k == add_knowledge(km, content, category)
           r == add_result(knowledge_id(k, category), w)
           rec == AddRecord(content, category, r.id)
       IN  /\ km' = k
           /\ store' = IF w = "ok" THEN save_knowledge(k) ELSE store
           /\ addlog' = [mem |-> Append(addlog.mem, rec),
                         file |-> IF w = "ok" THEN Append(addlog.mem, rec) ELSE addlog.file]
           /\ last' = Op("add_knowledge", "", category, r.raised, r.id, 0)
    /\ wrote' = w
    /\ added' = added + 1
    /\ UNCHANGED <<config, chat_sessions, conn, gen, log>>
    /\ UNCHANGED <<limits, accepting, constructed, max_items_arg, ui>>
    /\ io' = NoIO

KmGet(category) ==
    /\ km' = get_knowledge_effect(km, category)
    /\ last' = Op("get_knowledge", "", category, FALSE, get_knowledge(km, category), 0)
    /\ UNCHANGED <<config, store, chat_sessions, conn, gen, added, log>>
    /\ UNCHANGED <<limits, accepting, constructed, wrote, addlog, max_items_arg, ui>>
    /\ io' = NoIO

KmFormat(category, m) ==
    /\ max_items_arg' = m
    /\ last' = Op("format_for_prompt", "", category, FALSE, format_for_prompt(km, category, m), 0)
    /\ UNCHANGED <<config, store, chat_sessions, conn, gen, added, log>>
    /\ UNCHANGED <<limits, accepting, constructed, wrote, addlog, km, ui>>
    /\ io' = NoIO

KmSave(w) ==
    /\ store' = IF w = "ok" THEN save_knowledge(km) ELSE store
    /\ addlog' = [addlog EXCEPT !.file = IF w = "ok" THEN addlog.mem ELSE @]
    /\ wrote' = w
    /\ last' = Op("save_knowledge", "", NoCategory, w # "ok", <<>>, 0)
    /\ UNCHANGED <<config, chat_sessions, conn, gen, added, log>>
    /\ UNCHANGED <<limits, accepting, constructed, km, max_items_arg, ui>>
    /\ io' = NoIO

\* KnowledgeManager(): a new manager reads the file
KmLoad ==
    /\ km' = _load_knowledge(store)
    /\ addlog' = [addlog EXCEPT !.mem = addlog.file]
    /\ last' = Op("load_knowledge", "", NoCategory, FALSE, <<>>, 0)
    /\ UNCHANGED <<config, store, chat_sessions, conn, gen, added, log>>
    /\ UNCHANGED <<limits, accepting, constructed, wrote, max_items_arg, ui>>
    /\ io' = NoIO

InitKnowledge ==
    /\ config \in {c \in Configs : c.max_history = MaxHist /\ c.production}
    /\ store \in {NoFile, Malformed, save_knowledge(EmptyDoc)}
    /\ chat_sessions = <<>>
    /\ limits = Limits(0, 0, SubSeq(StoreItems, 1, MaxAdds))
    /\ km = _load_knowledge(store)
    /\ Quiet

NextKnowledge ==
    \/ \E i \in DOMAIN StoreItems, category \in {NoCategory} \cup KnowledgeCategories,
           w \in WriteOutcomes :
          KmAdd(StoreItems[i], category, w)
    \/ \E category \in {NoCategory} \cup KnowledgeCategories : KmGet(category)
    \/ \E category \in {NoCategory} \cup KnowledgeCategories, m \in 0..MaxArg :
          KmFormat(category, m)
    \/ \E w \in WriteOutcomes : KmSave(w)
    \/ KmLoad

SpecKnowledge == InitKnowledge /\ [][NextKnowledge]_vars

(********************** one LLMHandler called directly *********************)
Seqs(S, n) == UNION {[1..k -> S] : k \in 0..n}

\* message lists a caller passes: turns of user and assistant messages, with
\* or without a system message at their head
Histories ==
    LET turns == Seqs({Message("user", <<"a">>), Message("user", <<"b">>), Message("user", <<>>),
                       Message("assistant", <<"r">>)}, MaxMsgs)
    IN  turns \cup {<<Message("system", <<"P">>)>> \o t : t \in turns}

DaemonHistories == {<<Message("user", <<"a">>)>>,
                    <<Message("system", <<"P">>), Message("user", <<"a">>)>>}

Texts == Seqs({"x", " ", Delimiter}, MaxText)

\* the responses of the hosted API
HostedOutcomes ==
    {Fault("ConnectionError"), BadStatus}
        \cup {Body(shape, "generated_text", t) : shape \in {"list_dict", "dict"}, t \in Texts}
        \cup {Body(sk[1], sk[2], t) :
                 sk \in {<<"string", "">>, <<"list_string", "">>, <<"list_dict", "content">>,
                         <<"list_dict", "other">>, <<"dict", "content">>,
                         <<"dict", "message.content">>, <<"dict", "other">>,
                         <<"list_empty", "">>, <<"not_json", "">>},
                 t \in {<<"x">>, <<"x", Delimiter, "x">>}}

\* the responses of the daemon to a chat request
DaemonOutcomes ==
    {Fault("ConnectionError"), BadStatus}
        \cup {BodyLines(l) :
                 l \in Seqs({Line(FALSE, FALSE, <<>>), Line(TRUE, FALSE, <<>>),
                             Line(TRUE, TRUE, <<"x">>), Line(TRUE, TRUE, <<"y">>)}, MaxLines)}

\* the responses of the daemon to GET /api/tags: the model is listed or not
ProbeOutcomes ==
    {Fault("ConnectionError"), Fault("Timeout"), BadStatus, Body("tags", "model", <<>>),
     Body("tags", "", <<>>), Body("not_json", "", <<>>)}

CannotConnect == "Cannot connect to Ollama service, please make sure Ollama is running"

\* the check letting the connection error through
_check_ollama_availability_unguarded(b) ==
    IF b.fault THEN [raised |-> TRUE, ok |-> FALSE, message |-> <<b.key>>]
    ELSE IF b.status # 200
    THEN [raised |-> FALSE, ok |-> FALSE, message |-> <<"Ollama service response abnormal">>]
    ELSE IF b.shape = "not_json"
    THEN [raised |-> FALSE, ok |-> FALSE,
          message |-> <<"Error checking Ollama service: ", "JSONDecodeError">>]
    ELSE IF b.key = "model"
    THEN [raised |-> FALSE, ok |-> TRUE,
          message |-> <<"Ollama service is available, model has been downloaded">>]
    ELSE [raised |-> FALSE, ok |-> FALSE, message |-> <<"Model not found in Ollama">>]

_check_ollama_availability(b) ==
    IF b.fault /\ b.key = "ConnectionError"
    THEN [raised |-> FALSE, ok |-> FALSE, message |-> <<CannotConnect>>]
    ELSE IF b.fault
    THEN [raised |-> FALSE, ok |-> FALSE, message |-> <<"Error checking Ollama service: ", b.key>>]
    ELSE IF b.status # 200
    THEN [raised |-> FALSE, ok |-> FALSE, message |-> <<"Ollama service response abnormal">>]
    ELSE IF b.shape = "not_json"
    THEN [raised |-> FALSE, ok |-> FALSE,
          message |-> <<"Error checking Ollama service: ", "JSONDecodeError">>]
    ELSE IF b.key = "model"
    THEN [raised |-> FALSE, ok |-> TRUE,
          message |-> <<"Ollama service is available, model has been downloaded">>]
    ELSE [raised |-> FALSE, ok |-> FALSE, message |-> <<"Model not found in Ollama">>]

\* load_model of a daemon-kind handler: lines 153-161 inside the try of line 108;
\* an exception of the check is caught at line 176
OllamaLoad(c, b) ==
    /\ ~gen.active
    /\ c \in Live
    /\ Kind(chat_sessions[c].llm_handler) = "local_daemon"
    /\ chat_sessions[c].llm_handler.load_calls < MaxLoads
    /\ LET chk == _check_ollama_availability(b)
           ok == ~chk.raised /\ chk.ok
       IN  /\ chat_sessions' = [chat_sessions EXCEPT ![c].llm_handler = load_model(@, Outcome(ok))]
           /\ last' = Op("load_model", c, NoCategory, FALSE,
                          <<IF ok THEN "True" ELSE "False">> \o chk.message, 0)
    /\ io' = IO(<<>>, TRUE, <<"GET /api/tags">>, b)
    /\ UNCHANGED <<config, store, conn, gen, added, log>>
    /\ UNCHANGED <<limits, accepting, constructed, wrote, addlog, km, max_items_arg, ui>>

\* a caller passes its message list to generate_response
HandlerCall(c, messages) ==
    /\ ~gen.active
    /\ c \in Live
    /\ gen' = [active |-> TRUE, client |-> c, category |-> NoCategory, messages |-> messages]
    /\ last' = Op("generate_call", c, NoCategory, FALSE, <<>>, 0)
    /\ io' = NoIO
    /\ UNCHANGED <<config, store, chat_sessions, conn, added, log>>
    /\ UNCHANGED <<limits, accepting, constructed, wrote, addlog, km, max_items_arg, ui>>

\* the call returns; gen keeps the caller's list as the call left it
HandlerReturn(c, b) ==
    /\ gen.active
    /\ gen.client = c
    /\ LET r == generate_response(chat_sessions[c].llm_handler, gen.messages, b)
       IN  /\ gen' = [gen EXCEPT !.active = FALSE, !.messages = r.history]
           /\ chat_sessions' = [chat_sessions EXCEPT ![c].llm_handler = r.handler]
           /\ last' = Op("generate_response", c, NoCategory, r.raised, r.text, 0)
           /\ io' = IO(<<>>, r.called, r.request, IF r.called THEN b ELSE NoExchange)
    /\ UNCHANGED <<config, store, conn, added, log>>
    /\ UNCHANGED <<limits, accepting, constructed, wrote, addlog, km, max_items_arg, ui>>

InitHosted ==
    /\ config \in {c \in Configs : c.max_history = MaxHist /\ c.production}
    /\ store = NoFile
    /\ chat_sessions = ("c1" :> ChatSession(config, store))
    /\ limits = Limits(0, 0, <<>>)
    /\ km = EmptyDoc
    /\ Quiet

NextHosted ==
    \/ \E c \in Clients, messages \in Histories : HandlerCall(c, messages)
    \/ \E c \in Clients, b \in HostedOutcomes : HandlerReturn(c, b)

SpecHosted == InitHosted /\ [][NextHosted]_vars

InitDaemon ==
    /\ config \in {c \in Configs : c.max_history = MaxHist /\ ~c.production
                                    /\ ~c.use_llama_cpp /\ c.use_ollama}
    /\ store = NoFile
    /\ chat_sessions = ("c1" :> ChatSession(config, store))
    /\ limits = Limits(0, 0, <<>>)
    /\ km = EmptyDoc
    /\ Quiet

NextDaemon ==
    \/ \E c \in Clients, b \in ProbeOutcomes : OllamaLoad(c, b)
    \/ \E c \in Clients, messages \in DaemonHistories : HandlerCall(c, messages)
    \/ \E c \in Clients, b \in DaemonOutcomes : HandlerReturn(c, b)

SpecDaemon == InitDaemon /\ [][NextDaemon]_vars

(************* sessions created while the environment changes *************)
\* the environment and config.json as a construction reads them: production
\* or not, with each one of the backend flags of the file or none
EnvConfigs ==
    {[max_history |-> MaxHist, system_prompt |-> "S", production |-> p,
      use_huggingface_api |-> f = "huggingface_api", use_llama_cpp |-> f = "llama_cpp",
      use_ollama |-> f = "ollama"] :
        p \in BOOLEAN, f \in {"huggingface_api", "llama_cpp", "ollama", "none"}}

\* RENDER or ENVIRONMENT, as the next is_production() reads them, changes
EnvChange ==
    /\ config' = [config EXCEPT !.production = ~@]
    /\ UNCHANGED <<store, chat_sessions, conn, gen, added, log, last, io>>
    /\ UNCHANGED <<limits, accepting, constructed, wrote, addlog, km, max_items_arg, ui>>

\* config.json is rewritten with other backend flags
ConfigChange(cfg) ==
    /\ cfg.production = config.production
    /\ cfg # config
    /\ config' = cfg
    /\ UNCHANGED <<store, chat_sessions, conn, gen, added, log, last, io>>
    /\ UNCHANGED <<limits, accepting, constructed, wrote, addlog, km, max_items_arg, ui>>

\* chat_sessions[client_id] = ChatSession()
NewSession(c) ==
    /\ ~gen.active
    /\ NeedsSession(chat_sessions, c)
    /\ chat_sessions' = (c :> ChatSession(config, store)) @@ chat_sessions
    /\ constructed' = [constructed EXCEPT ![c] = @ + 1]
    /\ last' = Op("ChatSession", c, NoCategory, FALSE, <<>>, 0)
    /\ io' = NoIO
    /\ UNCHANGED <<config, store, conn, gen, added, log>>
    /\ UNCHANGED <<limits, accepting, wrote, addlog, km, max_items_arg, ui>>

InitEnv ==
    /\ config \in EnvConfigs
    /\ store = NoFile
    /\ chat_sessions = <<>>
    /\ limits = Limits(0, MaxEnvLog, <<>>)
    /\ km = EmptyDoc
    /\ Quiet

NextEnv ==
    \/ EnvChange
    \/ \E cfg \in EnvConfigs : ConfigChange(cfg)
    \/ \E c \in Clients : NewSession(c)
    \/ \E c \in Clients : Initialize(c)
    \/ \E c \in Clients : GetResponseCall(c, NoCategory)
    \/ \E c \in Clients : GenerateReturn(c)

SpecEnv == InitEnv /\ [][NextEnv]_vars

(************** load_model and generate_response of every kind ************)
\* production or not, with every combination of the three backend flags
AllFlagConfigs ==
    {[max_history |-> MaxHist, system_prompt |-> "S", production |-> p,
      use_huggingface_api |-> f[1], use_llama_cpp |-> f[2], use_ollama |-> f[3]] :
        p \in BOOLEAN, f \in BOOLEAN \X BOOLEAN \X BOOLEAN}

\* what a load_model call reaches for: the key, the model file and Llama,
\* the daemon's catalogue, the tokenizer and the pipeline
LoadRequest(h) ==
    IF LoadKind(h) = "hosted_api" THEN <<"HUGGINGFACE_API_KEY">>
    ELSE IF LoadKind(h) = "native_binding" THEN <<"Llama">>
    ELSE IF LoadKind(h) = "local_daemon" THEN <<"GET /api/tags">>
    ELSE <<"pipeline">>

\* load_model called on the handler; every exception is caught at line 176
HandlerLoad(c, o) ==
    /\ ~gen.active
    /\ c \in Live
    /\ chat_sessions[c].llm_handler.load_calls < MaxLoads
    /\ chat_sessions' = [chat_sessions EXCEPT ![c].llm_handler = load_model(@, o)]
    /\ last' = Op("load_model", c, NoCategory, FALSE,
                   <<IF o = "ready" THEN "True" ELSE "False">>, 0)
    /\ io' = IO(<<>>, TRUE, LoadRequest(chat_sessions[c].llm_handler), Body("load", o, <<>>))
    /\ UNCHANGED <<config, store, conn, gen, added, log>>
    /\ UNCHANGED <<limits, accepting, constructed, wrote, addlog, km, max_items_arg, ui>>

InitLoad ==
    /\ config \in AllFlagConfigs
    /\ store = save_knowledge(SomeDoc)
    /\ chat_sessions = ("c1" :> ChatSession(config, store))
    /\ limits = Limits(0, 0, <<>>)
    /\ km = EmptyDoc
    /\ Quiet

NextLoad ==
    \/ \E c \in Clients, o \in LoadOutcomes : HandlerLoad(c, o)
    \/ \E c \in Clients, messages \in DaemonHistories : HandlerCall(c, messages)
    \/ \E c \in Live :
          \E b \in Behaviours(chat_sessions[c].llm_handler, gen.messages) : HandlerReturn(c, b)

SpecLoad == InitLoad /\ [][NextLoad]_vars

(***************************** desktop UI **********************************)
\* the id the session of the window is kept under
UiClient == "c1"

\* A thread running get_response(user_input): pc is its position inside
\* add_message (append, check, head, tail, assign) or around the backend call
\* (call, generating); role and content are the message add_message is
\* adding, head and tail the operands of line 176 already read, messages the
\* list passed to generate_response.
Thread(user_input) ==
    [pc |-> "append", role |-> "user", content |-> user_input, head |-> <<>>, tail |-> <<>>,
     messages |-> <<>>]

\* root.after(0, name, text)
Callback(name, text) == [name |-> name, text |-> text]

Remove(seq, i) == SubSeq(seq, 1, i - 1) \o SubSeq(seq, i + 1, Len(seq))

\* send_message without the test of is_generating
send_message_unguarded(u, user_input) ==
    IF ~u.is_model_loaded THEN [u EXCEPT !.notice = "Please load the model first"]
    ELSE IF user_input = <<>> THEN [u EXCEPT !.notice = ""]
    ELSE [u EXCEPT !.notice = "", !.is_generating = TRUE, !.send_button = "disabled",
                   !.threads = Append(@, Thread(user_input)), !.sends = @ + 1,
                   !.cleared = FALSE]

\* sends counts the turns started; cleared tells whether the history was
\* cleared while the turn started last was in progress
send_message(u, user_input) ==
    IF ~u.is_model_loaded THEN [u EXCEPT !.notice = "Please load the model first"]
    ELSE IF u.is_generating THEN [u EXCEPT !.notice = "Generating response, please wait"]
    ELSE IF user_input = <<>> THEN [u EXCEPT !.notice = ""]
    ELSE [u EXCEPT !.notice = "", !.is_generating = TRUE, !.send_button = "disabled",
                   !.threads = Append(@, Thread(user_input)), !.sends = @ + 1,
                   !.cleared = FALSE]

\* the Send button or the Enter key, the input box empty or not
UiSend(empty) ==
    /\ ui.present
    /\ LET user_input == IF empty THEN <<>> ELSE <<Inputs[ui.sends + 1]>>
       IN  /\ send_message(ui, user_input).sends <= limits.log
           /\ ui' = send_message(ui, user_input)
           /\ last' = Op("send_message", UiClient, NoCategory, FALSE, user_input, 0)
    /\ io' = NoIO
    /\ UNCHANGED <<config, store, chat_sessions, conn, gen, added, log>>
    /\ UNCHANGED <<limits, accepting, constructed, wrote, addlog, km, max_items_arg>>

\* the Clear History button and the answer to its dialog
UiClear(yes) ==
    /\ ui.present
    /\ IF yes
       THEN /\ chat_sessions' = [chat_sessions EXCEPT ![UiClient].chat_history =
                                     clear_history(chat_sessions[UiClient])]
            /\ ui' = [ui EXCEPT !.notice = "", !.cleared = @ \/ ui.threads # <<>>]
       ELSE /\ ui' = [ui EXCEPT !.notice = ""]
            /\ UNCHANGED chat_sessions
    /\ last' = Op("clear_history", UiClient, NoCategory, FALSE, <<>>, 0)
    /\ io' = NoIO
    /\ UNCHANGED <<config, store, conn, gen, added, log>>
    /\ UNCHANGED <<limits, accepting, constructed, wrote, addlog, km, max_items_arg>>

\* the Load Model button, which a disabled button does not deliver
UiLoadModel ==
    /\ ui.present
    /\ ui.load_button = "normal"
    /\ chat_sessions[UiClient].llm_handler.load_calls < MaxLoads
    /\ ui' = IF ui.is_model_loaded THEN [ui EXCEPT !.notice = "Model already loaded"]
             ELSE [ui EXCEPT !.notice = "", !.load_button = "disabled", !.loading = TRUE]
    /\ last' = Op("load_model", UiClient, NoCategory, FALSE, <<>>, 0)
    /\ io' = NoIO
    /\ UNCHANGED <<config, store, chat_sessions, conn, gen, added, log>>
    /\ UNCHANGED <<limits, accepting, constructed, wrote, addlog, km, max_items_arg>>

\* _load_model_thread
UiLoadThread(ok) ==
    /\ ui.present
    /\ ui.loading
    /\ chat_sessions' = [chat_sessions EXCEPT ![UiClient].llm_handler = load_model(@, Outcome(ok))]
    /\ ui' = [ui EXCEPT !.loading = FALSE,
                        !.after = Append(@, Callback("_update_ui_after_loading",
                                                     <<IF ok THEN "True" ELSE "False">>))]
    /\ last' = Op("initialize", UiClient, NoCategory, ~ok, <<>>, 0)
    /\ io' = NoIO
    /\ UNCHANGED <<config, store, conn, gen, added, log>>
    /\ UNCHANGED <<limits, accepting, constructed, wrote, addlog, km, max_items_arg>>

_update_ui_after_loading(u, success) ==
    IF success = <<"True">>
    THEN [u EXCEPT !.is_model_loaded = TRUE, !.load_button = "disabled", !.notice = ""]
    ELSE [u EXCEPT !.load_button = "normal", !.notice = "Model loading failed"]

\* the answer displayed and nothing reset
_update_ui_after_response_display_only(u, response) == [u EXCEPT !.notice = ""]

_update_ui_after_response(u, response) ==
    [u EXCEPT !.is_generating = FALSE, !.send_button = "normal", !.notice = ""]

\* the error dialog, then the reset
_update_ui_after_error(u, error_msg) ==
    [u EXCEPT !.is_generating = FALSE, !.send_button = "normal",
              !.notice = "Error generating response"]

\* the Tk main loop runs the callback queued first
UiCallback ==
    /\ ui.present
    /\ ui.after # <<>>
    /\ LET cb == Head(ui.after)
           u == [ui EXCEPT !.after = Tail(@)]
       IN  /\ ui' = IF cb.name = "_update_ui_after_loading"
                    THEN _update_ui_after_loading(u, cb.text)
                    ELSE IF cb.name = "_update_ui_after_response"
                    THEN _update_ui_after_response(u, cb.text)
                    ELSE _update_ui_after_error(u, cb.text)
           /\ last' = Op(cb.name, UiClient, NoCategory, FALSE, cb.text, 0)
    /\ io' = NoIO
    /\ UNCHANGED <<config, store, chat_sessions, conn, gen, added, log>>
    /\ UNCHANGED <<limits, accepting, constructed, wrote, addlog, km, max_items_arg>>

\* add_message of thread i is over: get_response goes on to the backend
\* call, or returns and the thread queues _update_ui_after_response
Finished(u, i) ==
    IF u.threads[i].role = "user"
    THEN [u EXCEPT !.threads[i].pc = "call", !.threads[i].head = <<>>,
                   !.threads[i].tail = <<>>]
    ELSE [u EXCEPT !.threads = Remove(@, i),
                   !.after = Append(@, Callback("_update_ui_after_response",
                                                u.threads[i].content))]

\* chat_logic.py line 169
ThreadAppend(i) ==
    /\ ui.present
    /\ i \in DOMAIN ui.threads
    /\ ui.threads[i].pc = "append"
    /\ chat_sessions' = [chat_sessions EXCEPT ![UiClient].chat_history =
                             Append(@, Message(ui.threads[i].role, ui.threads[i].content))]
    /\ ui' = [ui EXCEPT !.threads[i].pc = "check"]
    /\ last' = Op("append", UiClient, NoCategory, FALSE, ui.threads[i].content, 0)
    /\ io' = NoIO
    /\ UNCHANGED <<config, store, conn, gen, added, log>>
    /\ UNCHANGED <<limits, accepting, constructed, wrote, addlog, km, max_items_arg>>

\* lines 173 and 175
ThreadCheck(i) ==
    /\ ui.present
    /\ i \in DOMAIN ui.threads
    /\ ui.threads[i].pc = "check"
    /\ LET s == chat_sessions[UiClient]
       IN  ui' = IF Len(s.chat_history) > s.max_history + 1
                 THEN IF s.chat_history[1].role = "system"
                      THEN [ui EXCEPT !.threads[i].pc = "head"]
                      ELSE [ui EXCEPT !.threads[i].pc = "tail"]
                 ELSE Finished(ui, i)
    /\ last' = Op("check", UiClient, NoCategory, FALSE, <<>>, 0)
    /\ io' = NoIO
    /\ UNCHANGED <<config, store, chat_sessions, conn, gen, added, log>>
    /\ UNCHANGED <<limits, accepting, constructed, wrote, addlog, km, max_items_arg>>

\* line 176, left operand: [self.chat_history[0]]
ThreadHead(i) ==
    /\ ui.present
    /\ i \in DOMAIN ui.threads
    /\ ui.threads[i].pc = "head"
    /\ ui' = [ui EXCEPT !.threads[i].pc = "tail",
                        !.threads[i].head = <<chat_sessions[UiClient].chat_history[1]>>]
    /\ last' = Op("head", UiClient, NoCategory, FALSE, <<>>, 0)
    /\ io' = NoIO
    /\ UNCHANGED <<config, store, chat_sessions, conn, gen, added, log>>
    /\ UNCHANGED <<limits, accepting, constructed, wrote, addlog, km, max_items_arg>>

\* lines 176 and 178: self.chat_history[-self.max_history:]
ThreadTail(i) ==
    /\ ui.present
    /\ i \in DOMAIN ui.threads
    /\ ui.threads[i].pc = "tail"
    /\ ui' = [ui EXCEPT !.threads[i].pc = "assign",
                        !.threads[i].tail = LastN(chat_sessions[UiClient].chat_history,
                                                  chat_sessions[UiClient].max_history)]
    /\ last' = Op("tail", UiClient, NoCategory, FALSE, <<>>, 0)
    /\ io' = NoIO
    /\ UNCHANGED <<config, store, chat_sessions, conn, gen, added, log>>
    /\ UNCHANGED <<limits, accepting, constructed, wrote, addlog, km, max_items_arg>>

\* lines 176 and 178: the assignment to self.chat_history
ThreadAssign(i) ==
    /\ ui.present
    /\ i \in DOMAIN ui.threads
    /\ ui.threads[i].pc = "assign"
    /\ chat_sessions' = [chat_sessions EXCEPT ![UiClient].chat_history =
                             ui.threads[i].head \o ui.threads[i].tail]
    /\ ui' = Finished(ui, i)
    /\ last' = Op("assign", UiClient, NoCategory, FALSE, <<>>, 0)
    /\ io' = NoIO
    /\ UNCHANGED <<config, store, conn, gen, added, log>>
    /\ UNCHANGED <<limits, accepting, constructed, wrote, addlog, km, max_items_arg>>

\* chat_logic.py line 198: generate_response is called with the list chat_history names now
ThreadCall(i) ==
    /\ ui.present
    /\ i \in DOMAIN ui.threads
    /\ ui.threads[i].pc = "call"
    /\ ui' = [ui EXCEPT !.threads[i].pc = "generating",
                        !.threads[i].messages = chat_sessions[UiClient].chat_history]
    /\ last' = Op("generate_call", UiClient, NoCategory, FALSE, <<>>, 0)
    /\ io' = NoIO
    /\ UNCHANGED <<config, store, chat_sessions, conn, gen, added, log>>
    /\ UNCHANGED <<limits, accepting, constructed, wrote, addlog, km, max_items_arg>>

\* generate_response returns, and get_response goes on to add the answer,
\* or raises, and the thread queues _update_ui_after_error (ui.py 244-245)
ThreadReturn(i) ==
    /\ ui.present
    /\ i \in DOMAIN ui.threads
    /\ ui.threads[i].pc = "generating"
    /\ \E b \in Behaviours(chat_sessions[UiClient].llm_handler, ui.threads[i].messages) :
         LET r == generate_response(chat_sessions[UiClient].llm_handler,
                                    ui.threads[i].messages, b)
         IN  /\ chat_sessions' = [chat_sessions EXCEPT ![UiClient].llm_handler = r.handler]
             /\ ui' = IF r.raised
                      THEN [ui EXCEPT !.threads = Remove(@, i),
                                      !.after = Append(@, Callback("_update_ui_after_error",
                                                                   r.text))]
                      ELSE [ui EXCEPT !.threads[i].pc = "append",
                                      !.threads[i].role = "assistant",
                                      !.threads[i].content = r.text,
                                      !.threads[i].messages = <<>>]
             /\ last' = Op("generate_response", UiClient, NoCategory, r.raised, r.text, 0)
             /\ io' = IO(<<>>, r.called, r.request, IF r.called THEN b ELSE NoExchange)
    /\ UNCHANGED <<config, store, conn, gen, added, log>>
    /\ UNCHANGED <<limits, accepting, constructed, wrote, addlog, km, max_items_arg>>

\* a step of a generation thread
ThreadStep ==
    \E i \in 1..MaxSends :
        \/ ThreadAppend(i)
        \/ ThreadCheck(i)
        \/ ThreadHead(i)
        \/ ThreadTail(i)
        \/ ThreadAssign(i)
        \/ ThreadCall(i)
        \/ ThreadReturn(i)

InitUi ==
    /\ config \in {c \in Configs : c.max_history = MaxHist}
    /\ store = NoFile
    /\ chat_sessions = (UiClient :> ChatSession(config, store))
    /\ limits = Limits(0, MaxSends, <<>>)
    /\ km = EmptyDoc
    /\ Silent
    /\ ui = [NoUI EXCEPT !.present = TRUE]

NextUi ==
    \/ UiLoadModel
    \/ \E ok \in BOOLEAN : UiLoadThread(ok)
    \/ UiCallback
    \/ \E empty \in BOOLEAN : UiSend(empty)
    \/ \E yes \in BOOLEAN : UiClear(yes)
    \/ \E i \in 1..MaxSends : ThreadAppend(i)
    \/ \E i \in 1..MaxSends : ThreadCheck(i)
    \/ \E i \in 1..MaxSends : ThreadHead(i)
    \/ \E i \in 1..MaxSends : ThreadTail(i)
    \/ \E i \in 1..MaxSends : ThreadAssign(i)
    \/ \E i \in 1..MaxSends : ThreadCall(i)
    \/ \E i \in 1..MaxSends : ThreadReturn(i)

SpecUi == InitUi /\ [][NextUi]_vars

\* the interpreter schedules a thread that can run, the backend call ends,
\* and the main loop runs the callbacks queued for it
SpecUiFair == SpecUi /\ WF_vars(ThreadStep) /\ WF_vars(UiCallback)

\* a process is the desktop program or the server
InitTurns == InitUi \/ InitRace

NextTurns ==
    \/ ui.present /\ NextUi
    \/ ~ui.present /\ NextRace

SpecTurns == InitTurns /\ [][NextTurns]_vars

(******************************* claims ************************************)
History(c) == chat_sessions[c].chat_history

NonSystem(h) == SelectSeq(h, LAMBDA m : m.role # "system")

\* The k most recent elements of a sequence, oldest first.
MostRecent(seq, k) == SubSeq(seq, Len(seq) - k + 1, Len(seq))

Min(a, b) == IF a < b THEN a ELSE b

\* base prompt, blank line, excerpt; the base prompt alone when the excerpt is empty
ExpectedPrompt(base, k, category) ==
    LET excerpt == format_for_prompt(k, category, MaxItems)
    IN  IF excerpt = <<>> THEN <<base>> ELSE <<base, "\n\n">> \o excerpt

Appended == {"add_message", "get_response_call", "get_response"}

\* C1: after each add_message call the number of messages in chat_history,
\* not counting a system message at index 0, is at most max_history.
C1_HistoryBound ==
    \A c \in Live :
        (last.client = c /\ last.op \in Appended /\ ~last.raised) =>
            Len(History(c)) - (IF History(c)[1].role = "system" THEN 1 ELSE 0)
                <= chat_sessions[c].max_history

\* C2: in every state of a session, chat_history[0] has role system and no
\* other message of chat_history has role system.
C2_OneSystemAtHead ==
    \A c \in Live :
        /\ History(c) # <<>>
        /\ History(c)[1].role = "system"
        /\ \A i \in 2..Len(History(c)) : History(c)[i].role # "system"

\* C3: after every add_message the non-system messages kept are exactly the
\* most recent min(max_history, n) of the n non-system messages appended since
\* the last clear, in order, and the system message is retained at index 0.
C3_KeepsMostRecent ==
    \A c \in Live :
        (last.client = c /\ last.op \in Appended /\ ~last.raised) =>
            /\ History(c)[1].role = "system"
            /\ NonSystem(History(c)) =
                   MostRecent(log[c], Min(chat_sessions[c].max_history, Len(log[c])))

\* C4: after any sequence of turns, failed ones included, the non-system
\* messages of chat_history never hold two consecutive messages of one role
\* (a failed generation still appends an assistant message).
C4_Alternation ==
    \A c \in Live :
        LET ns == NonSystem(History(c))
        IN  \A i \in 1..(Len(ns) - 1) : ns[i].role # ns[i + 1].role

\* C5: generate_response returns a text and never raises to its caller, for
\* every backend kind and every load state.
C5_GenerateNeverRaises ==
    last.op = "get_response" => ~last.raised

\* C6: when the knowledge Add completes, the system message of every session
\* in chat_sessions is the base prompt joined with the excerpt of the
\* knowledge base as it is after the add.
C6_BroadcastSeesAdd ==
    (last.op = "add_knowledge" /\ ~last.raised) =>
        \A c \in Live :
            History(c)[1] = Message("system", ExpectedPrompt(config.system_prompt,
                                                             _load_knowledge(store), NoCategory))

\* C7: clear_history leaves exactly one message, of role system, whose content
\* is the content of the system message at index 0 before the call
\* (recomputed from base prompt and knowledge when there was none).
C7_ClearKeepsSystem ==
    [][\A c \in Live :
          (last'.op = "clear_history" /\ last'.client = c) =>
              /\ Len(History(c)') = 1
              /\ History(c)'[1].role = "system"
              /\ History(c)'[1].content =
                     IF History(c) # <<>> /\ History(c)[1].role = "system"
                     THEN History(c)[1].content
                     ELSE ExpectedPrompt(chat_sessions[c].system_prompt,
                                         chat_sessions[c].knowledge, NoCategory)]_vars

\* a clear that discarded messages and kept a prompt built for a category
C7_Witness ==
    /\ last.op = "clear_history"
    /\ last.dropped >= 2
    /\ Len(History(last.client)) = 1
    /\ History(last.client)[1].content = ExpectedPrompt("S", SomeDoc, "facts")

\* C8: with the knowledge base and the category unchanged, a second
\* update_system_prompt right after the first leaves chat_history[0].content
\* as the first call set it and changes nothing else in chat_history.
C8_UpdateIdempotent ==
    \A c \in Live :
        (last.op = "update_system_prompt" /\ last.client = c) =>
            update_system_prompt(chat_sessions[c], last.category) = History(c)

\* an update for a category with a non-empty excerpt, on a history with turns
C8_Witness ==
    /\ last.op = "update_system_prompt"
    /\ last.category = "facts"
    /\ Len(History(last.client)) >= 3
    /\ History(last.client)[1].content # <<"S">>

\* C9: in get_response the user message is appended before generate_response
\* is invoked; the history passed has the system message at index 0 and the
\* user message last; when get_response returns r the last message of
\* chat_history is the assistant message with content r.
C9_TurnOrder ==
    /\ gen.active =>
          /\ last.op = "get_response_call"
          /\ gen.messages = History(gen.client)
          /\ gen.messages[1].role = "system"
          /\ gen.messages[Len(gen.messages)] = Message("user", last.text)
    /\ (last.op = "get_response" /\ ~last.raised) =>
          History(last.client)[Len(History(last.client))] = Message("assistant", last.text)

\* a turn that returned a text and trimmed the history while appending it
C9_Witness ==
    /\ last.op = "get_response"
    /\ ~last.raised
    /\ last.dropped >= 1
    /\ Len(History(last.client)) >= 2

\* C10: for a turn with a non-empty category c the system message passed to
\* generate_response is the base prompt, a blank line and the excerpt for c,
\* or the base prompt alone when that excerpt is empty.
C10_CategoryPrompt ==
    (gen.active /\ gen.category # NoCategory) =>
        /\ gen.messages[1] =
               Message("system", ExpectedPrompt(chat_sessions[gen.client].system_prompt,
                                                chat_sessions[gen.client].knowledge,
                                                gen.category))
        /\ gen.messages[Len(gen.messages)].role = "user"

\* a categorized turn in flight whose excerpt is not empty, after earlier messages
C10_Witness ==
    /\ gen.active
    /\ gen.category = "facts"
    /\ Len(gen.messages) >= 3
    /\ gen.messages[1].content = ExpectedPrompt("S", SomeDoc, "facts")

\* C11: while generate_response for session A is in flight, the server can
\* take a chat message of another connected session B and start B's turn.
C11_TurnsOverlap ==
    \A a \in Clients, b \in Clients :
        (/\ gen.active
         /\ gen.client = a
         /\ b # a
         /\ b \in Live
         /\ conn[b] > 0
         /\ TotalLog(Clients) + 2 <= limits.log)
        => ENABLED WsChat(b, NoCategory)

\* C12: however the connections on one client id interleave, one ChatSession
\* is constructed for the id, and every handler loop runs on an id that has
\* its session.
C12_OneSessionPerId ==
    \A c \in Clients :
        /\ constructed[c] = IF c \in Live THEN 1 ELSE 0
        /\ conn[c] > 0 => c \in Live

\* a handler has just constructed the session while another connection on the
\* same id, accepted earlier, has yet to make its membership test
C12_Witness ==
    /\ last.op = "connect"
    /\ last.text = <<"status">>
    /\ accepting[last.client] >= 1
    /\ constructed[last.client] = 1

RECURSIVE FirstAdded(_)
FirstAdded(adds) ==
    IF adds = <<>> THEN <<>>
    ELSE LET front == FirstAdded(SubSeq(adds, 1, Len(adds) - 1))
             name == adds[Len(adds)].category
         IN  IF name = NoCategory \/ \E i \in DOMAIN front : front[i] = name
             THEN front ELSE Append(front, name)

\* the contents a sequence of adds put in one bucket, in the order of the adds
ContentsOf(adds, category) ==
    LET sel == SelectSeq(adds, LAMBDA r : r.category = category)
    IN  [i \in DOMAIN sel |-> sel[i].content]

ExpectedDoc(adds) ==
    [general |-> ContentsOf(adds, NoCategory),
     categories |-> [i \in DOMAIN FirstAdded(adds) |->
                        [name |-> FirstAdded(adds)[i],
                         items |-> ContentsOf(adds, FirstAdded(adds)[i])]]]

C20_WriteFailureRaised ==
    [][(last'.op = "add_knowledge" /\ wrote' # "ok") =>
          /\ last'.raised
          /\ last'.text = <<>>
          /\ store' = store
          /\ chat_sessions' = chat_sessions
          /\ addlog'.file = addlog.file]_vars

\* an add fails on its write after an earlier add succeeded, with a session live
C20_Witness ==
    /\ last.op = "add_knowledge"
    /\ wrote = "unwritable"
    /\ Len(addlog.file) >= 1
    /\ Live # {}

BucketOf(category) == IF category = NoCategory THEN "general" ELSE category

\* the number of entries a bucket holds
Held(k, category) ==
    IF category = NoCategory THEN Len(k.general) ELSE Len(get_knowledge(k, category))

\* C15: add_knowledge returns <bucket>_<k>, k being the number of entries the
\* bucket held before the call, so an id differs from every id given earlier
\* for the bucket; the bucket of an unknown category exists after the call.
C15_AddIds ==
    [][(last'.op = "add_knowledge" /\ ~last'.raised) =>
          LET category == last'.category
          IN  /\ last'.text = <<BucketOf(category), "_",
                                 ToString(Len(ContentsOf(addlog.mem, category)))>>
              /\ \A i \in DOMAIN addlog.mem :
                     addlog.mem[i].category = category => addlog.mem[i].id # last'.text
              /\ category # NoCategory => category \in BucketNames(km')
              /\ Held(km', category) = Len(ContentsOf(addlog.mem, category)) + 1]_vars

\* the third add to category facts has returned facts_2
C15_Witness ==
    /\ last.op = "add_knowledge"
    /\ ~last.raised
    /\ last.text = <<"facts", "_", "2">>

RECURSIVE InBucketOrder(_, _)
InBucketOrder(adds, names) ==
    IF names = <<>> THEN <<>>
    ELSE ContentsOf(adds, Head(names)) \o InBucketOrder(adds, Tail(names))

\* C16: get_knowledge with no category returns the entries of general, then
\* those of every category bucket, buckets in the order of their first add
\* and entries in the order they were added.
C16_GetAllOrder ==
    (last.op = "get_knowledge" /\ last.category = NoCategory) =>
        last.text = ContentsOf(addlog.mem, NoCategory)
                        \o InBucketOrder(addlog.mem, FirstAdded(addlog.mem))

\* everything is listed when tips was created before facts and general has an entry
C16_Witness ==
    /\ last.op = "get_knowledge"
    /\ last.category = NoCategory
    /\ FirstAdded(addlog.mem) = <<"tips", "facts">>
    /\ km.general # <<>>

\* C17: format_for_prompt lists the first min(max_items, n) of the n entries
\* get_knowledge gives for the category, numbered from 1 after the lead-in,
\* and returns the empty text exactly when it lists none.
C17_FormatTruncates ==
    last.op = "format_for_prompt" =>
        LET items == get_knowledge(km, last.category)
            n == Min(max_items_arg, Len(items))
            r == last.text
        IN  /\ (r = <<>>) <=> (n = 0)
            /\ n > 0 =>
                  /\ Len(r) = 2 + 4 * n
                  /\ SubSeq(r, 1, 2) = LeadIn
                  /\ \A i \in 1..n :
                         SubSeq(r, 4 * i - 1, 4 * i + 2) = <<ToString(i), ". ", items[i], "\n">>

\* a listing of general and a category bucket that max_items cut short
C17_Witness ==
    /\ last.op = "format_for_prompt"
    /\ last.category = NoCategory
    /\ max_items_arg >= 1
    /\ Len(get_knowledge(km, NoCategory)) > max_items_arg
    /\ km.categories # <<>>

\* C18: get_knowledge with a category that has no bucket returns the empty
\* sequence without failing and leaves the knowledge base and the file as
\* they were: the lookup creates no bucket.
C18_UnknownCategory ==
    [][(/\ last'.op = "get_knowledge"
        /\ last'.category # NoCategory
        /\ last'.category \notin BucketNames(km)) =>
          /\ last'.text = <<>>
          /\ ~last'.raised
          /\ km' = km
          /\ store' = store]_vars

\* a lookup of tips in a knowledge base that holds facts only
C18_Witness ==
    /\ last.op = "get_knowledge"
    /\ last.category = "tips"
    /\ BucketNames(km) = {"facts"}

\* C19: after save_knowledge, loading the file gives a knowledge base equal
\* to the one saved: same general sequence, same buckets, same entries, same order.
C19_RoundTrip ==
    (last.op = "save_knowledge" /\ ~last.raised) => _load_knowledge(store) = km

\* a save of a knowledge base with general entries and two buckets, one of
\* them added while the file could not be written
C19_Witness ==
    /\ last.op = "save_knowledge"
    /\ ~last.raised
    /\ km.general # <<>>
    /\ Len(km.categories) = 2
    /\ \E i \in DOMAIN addlog.file : addlog.file[i].id = <<>>

\* C21: on a connection every chat message is answered by one chat message
\* carrying the text get_response returned and every clear message by one
\* status message, and no further message of the connection is read before
\* the reply is sent.
C21_EveryMessageAnswered ==
    /\ last.op = "get_response" =>
          /\ ~last.raised
          /\ io.sent = <<Out("chat", last.text)>>
    /\ last.op = "clear_history" =>
          io.sent = <<Out("status", <<"Chat history cleared">>)>>
    /\ gen.active =>
          /\ io.sent = <<>>
          /\ ~ENABLED WsClear(gen.client)
          /\ \A category \in {NoCategory} \cup Categories : ~ENABLED WsChat(gen.client, category)

\* C22: the first connection of a client id makes one load_model call on the
\* new session and sends one status message telling what it returned, with no
\* inbound message processed yet; a later connection of the id sends none.
C22_OneInitOneStatus ==
    [][\A c \in Clients :
          (last'.op = "connect" /\ last'.client = c) =>
              IF c \notin Live
              THEN /\ chat_sessions'[c].llm_handler.load_calls = 1
                   /\ chat_sessions'[c].llm_handler.loaded = ~last'.raised
                   /\ io'.sent = <<Out("status",
                                       IF chat_sessions'[c].llm_handler.loaded
                                       THEN <<"Model loaded successfully, ready to chat!">>
                                       ELSE <<"Model loading failed!">>)>>
                   /\ log'[c] = <<>>
                   /\ Len(chat_sessions'[c].chat_history) = 1
              ELSE /\ io'.sent = <<>>
                   /\ chat_sessions'[c] = chat_sessions[c]]_vars

\* a first connection whose load_model returned False, made while another
\* client id already has its session
C22_Witness ==
    /\ last.op = "connect"
    /\ last.raised
    /\ io.sent = <<Out("status", <<"Model loading failed!">>)>>
    /\ Cardinality(Live) = 2

\* C23: whatever the backend kind, while load_model has not returned True
\* for the handler, generate_response returns a text and makes no call to
\* the backend.
C23_NoCallBeforeLoad ==
    (last.op = "get_response" /\ ~chat_sessions[last.client].llm_handler.loaded) =>
        /\ ~last.raised
        /\ ~io.called


\* the content of the system message of a history, the handler's default
\* system prompt when it has none
SystemText(h, messages) ==
    IF \E i \in DOMAIN messages : messages[i].role = "system"
    THEN messages[CHOOSE i \in DOMAIN messages :
                      /\ messages[i].role = "system"
                      /\ \A j \in 1..(i - 1) : messages[j].role # "system"].content
    ELSE <<h.system_prompt>>

\* the content of the user message no user message follows
LastUserText(messages) ==
    messages[CHOOSE i \in DOMAIN messages :
                 /\ messages[i].role = "user"
                 /\ \A j \in (i + 1)..Len(messages) : messages[j].role # "user"].content

\* C26: the request the hosted path sends holds the system message's text
\* (the handler's default when the history has none) and the last user
\* message's text between the fixed markers and nothing else of the history,
\* and the call leaves the caller's message list as it was.
C26_PromptCollapse ==
    /\ [](last.op = "generate_response" /\ io.called =>
            io.request = <<"<s>[INST] ">>
                            \o SystemText(chat_sessions[last.client].llm_handler, gen.messages)
                            \o <<" [/INST]</s>\n<s>[INST] ">>
                            \o LastUserText(gen.messages)
                            \o <<" [/INST]">>)
    /\ [][last'.op = "generate_response" => gen'.messages = gen.messages]_vars

\* a request was sent for a history without a system message whose two
\* user messages differ
C26_Witness ==
    /\ last.op = "generate_response"
    /\ io.called
    /\ gen.messages = <<Message("user", <<"a">>), Message("user", <<"b">>)>>
    /\ io.request = <<"<s>[INST] ", chat_sessions[last.client].llm_handler.system_prompt,
                      " [/INST]</s>\n<s>[INST] ", "b", " [/INST]">>

\* the shapes of a success response that carry a text
ListedShapes ==
    {<<"string", "">>, <<"list_dict", "generated_text">>, <<"list_dict", "content">>,
     <<"dict", "generated_text">>, <<"dict", "content">>, <<"dict", "message.content">>}

\* C27: a response of status 200 in one of the listed shapes makes the hosted
\* path return the text it carries (with the prompt part removed where the
\* text holds the delimiter), never a failure or degradation text.
C27_ListedShapesParsed ==
    (/\ last.op = "generate_response"
     /\ io.called
     /\ ~io.response.fault
     /\ io.response.status = 200
     /\ <<io.response.shape, io.response.key>> \in ListedShapes) =>
        /\ ~last.raised
        /\ last.text # Trouble
        /\ \/ last.text = io.response.text
           \/ /\ Contains(io.response.text, Delimiter)
              /\ \E i \in 0..Len(io.response.text) :
                     last.text = SubSeq(io.response.text, i + 1, Len(io.response.text))

\* C28: a generated_text holding the delimiter is returned as what follows
\* its first occurrence, without the whitespace around it; one without the
\* delimiter is returned as it came.
C28_ArtifactStripped ==
    (/\ last.op = "generate_response"
     /\ io.called
     /\ ~io.response.fault
     /\ io.response.status = 200
     /\ io.response.key = "generated_text"
     /\ io.response.shape \in {"list_dict", "dict"}) =>
        LET text == io.response.text
        IN  IF \E i \in DOMAIN text : text[i] = Delimiter
            THEN \E i \in DOMAIN text :
                    /\ text[i] = Delimiter
                    /\ \A j \in 1..(i - 1) : text[j] # Delimiter
                    /\ \E a \in (i + 1)..(Len(text) + 1), b \in i..Len(text) :
                          /\ last.text = SubSeq(text, a, b)
                          /\ \A k \in (i + 1)..(a - 1) : text[k] \in Whitespace
                          /\ \A k \in (b + 1)..Len(text) : text[k] \in Whitespace
                          /\ last.text # <<>> =>
                                (text[a] \notin Whitespace /\ text[b] \notin Whitespace)
            ELSE last.text = text

\* the text after the delimiter came with whitespace before it
C28_Witness ==
    /\ last.op = "generate_response"
    /\ io.response = Body("list_dict", "generated_text", <<Delimiter, " ", "x">>)
    /\ last.text = <<"x">>


\* the lines of a body that parse as JSON and carry message.content
Qualifying(lines) == {i \in DOMAIN lines : lines[i].json /\ lines[i].carries}

\* C29: for a daemon response of status 200 whose body is not one JSON
\* document, the result is the message.content of the last line that parses
\* and carries it, and the parsing-failure text only when no line does.
C29_LastQualifyingLine ==
    (/\ last.op = "generate_response"
     /\ io.called
     /\ ~io.response.fault
     /\ io.response.status = 200
     /\ io.response.shape = "lines"
     /\ ~Decodable(io.response.lines)) =>
        LET lines == io.response.lines
        IN  IF Qualifying(lines) # {}
            THEN \E i \in Qualifying(lines) :
                    /\ \A j \in Qualifying(lines) : j <= i
                    /\ last.text = lines[i].content
            ELSE /\ last.text # <<>>
                 /\ last.text[1] = "API response parsing error, original response: "

\* C30: load_model of a daemon-kind handler whose endpoint refuses the
\* connection returns False, the check having returned False with the
\* message of the connection failure; nothing is raised, on a first call as
\* on a later one, and the handler is not marked as loaded by such a call.
C30_UnreachableDaemon ==
    /\ [](last.op = "load_model" /\ io.response = Fault("ConnectionError") =>
            /\ ~last.raised
            /\ last.text = <<"False", CannotConnect>>
            /\ ~_check_ollama_availability(io.response).raised
            /\ ~_check_ollama_availability(io.response).ok)
    /\ [][\A c \in Clients :
            (c \in DOMAIN chat_sessions /\ last'.op = "load_model" /\ last'.client = c
               /\ io'.response = Fault("ConnectionError")) =>
                chat_sessions'[c].llm_handler.loaded = chat_sessions[c].llm_handler.loaded]_vars

\* a second call of load_model finds the endpoint gone after the first
\* found it ready
C30_Witness ==
    /\ last.op = "load_model"
    /\ io.response = Fault("ConnectionError")
    /\ chat_sessions[last.client].llm_handler.load_calls = 2
    /\ chat_sessions[last.client].llm_handler.loaded


\* C24: a handler constructed while the environment said production takes
\* the hosted path in load_model (no native model, no pipeline is built)
\* and in every generate_response (the request is the hosted prompt),
\* whatever the flags of the configuration file; no step, a change of the
\* environment or of the file included, changes the kind a handler uses.
C24_ProductionForcesHosted ==
    /\ [](\A c \in DOMAIN chat_sessions :
            chat_sessions[c].env_config.production =>
                LET h == chat_sessions[c].llm_handler
                IN  /\ Kind(h) = "hosted_api"
                    /\ ~h.pipe
                    /\ ~h.llama_cpp_model
                    /\ (last.op = "get_response" /\ last.client = c /\ io.called) =>
                          (io.request # <<>> /\ io.request[1] = "<s>[INST] "))
    /\ [][\A c \in DOMAIN chat_sessions :
            Kind(chat_sessions'[c].llm_handler) = Kind(chat_sessions[c].llm_handler)]_vars

\* a handler constructed in production answered a turn through the hosted
\* API after load_model, the environment having left production and the
\* file asking for the daemon
C24_Witness ==
    /\ last.op = "get_response"
    /\ chat_sessions[last.client].env_config.production
    /\ chat_sessions[last.client].llm_handler.load_calls > 0
    /\ ~config.production
    /\ config.use_ollama
    /\ io.called
    /\ io.request[1] = "<s>[INST] "

\* C25: the sessions of the process all generate through the same kind of
\* backend, whenever they were created.
C25_OneKindPerProcess ==
    \A c1 \in DOMAIN chat_sessions, c2 \in DOMAIN chat_sessions :
        Kind(chat_sessions[c1].llm_handler) = Kind(chat_sessions[c2].llm_handler)


\* what of a handler load_model and generate_response work with
HandlerState(h) ==
    [is_production |-> h.is_production, use_ollama |-> h.use_ollama,
     use_llama_cpp |-> h.use_llama_cpp, use_huggingface_api |-> h.use_huggingface_api,
     system_prompt |-> h.system_prompt, tokenizer |-> h.tokenizer, pipe |-> h.pipe,
     llama_cpp_model |-> h.llama_cpp_model]

\* C31: a load_model call leaves the session's chat_history, the knowledge
\* base and the handler's state as they were, and what it returns depends
\* on the backend's answer alone.
C31_ProbeHasNoEffect ==
    /\ [](last.op = "load_model" =>
            last.text = <<IF io.response.key = "ready" THEN "True" ELSE "False">>)
    /\ [][\A c \in DOMAIN chat_sessions :
            (last'.op = "load_model" /\ last'.client = c) =>
                /\ chat_sessions'[c].chat_history = chat_sessions[c].chat_history
                /\ chat_sessions'[c].knowledge = chat_sessions[c].knowledge
                /\ store' = store
                /\ HandlerState(chat_sessions'[c].llm_handler)
                       = HandlerState(chat_sessions[c].llm_handler)]_vars

\* C32: generate_response leaves the handler's pipe, tokenizer and
\* llama_cpp_model as they were, for every kind and before or after any
\* load_model call.
C32_GenerateNeverLoads ==
    [][\A c \in DOMAIN chat_sessions :
          (last'.op = "generate_response" /\ last'.client = c) =>
              /\ chat_sessions'[c].llm_handler.pipe = chat_sessions[c].llm_handler.pipe
              /\ chat_sessions'[c].llm_handler.tokenizer
                     = chat_sessions[c].llm_handler.tokenizer
              /\ chat_sessions'[c].llm_handler.llama_cpp_model
                     = chat_sessions[c].llm_handler.llama_cpp_model]_vars

\* generate_response was called on an in-process handler whose load got the
\* tokenizer but no pipeline
C32_Witness ==
    /\ last.op = "generate_response"
    /\ last.raised
    /\ chat_sessions[last.client].llm_handler.tokenizer
    /\ ~chat_sessions[last.client].llm_handler.pipe

\* the kind the flags select, by the priority hosted API, llama-cpp, daemon,
\* in-process model
Priority(cfg) ==
    IF cfg.production \/ cfg.use_huggingface_api THEN "hosted_api"
    ELSE IF cfg.use_llama_cpp THEN "native_binding"
    ELSE IF cfg.use_ollama THEN "local_daemon"
    ELSE "in_process_model"

\* the backend a request of generate_response goes to
BackendOf(request) ==
    IF request[1] = "<s>[INST] " THEN "hosted_api"
    ELSE IF request[1] = "create_chat_completion" THEN "native_binding"
    ELSE IF request[1] = "POST /api/chat" THEN "local_daemon"
    ELSE "in_process_model"

\* C33: for every combination of the production flag and the three flags
\* of the file, load_model and generate_response take the branch of the
\* same kind, the one the priority gives, and a generation calls the
\* backend of the kind the handler's load_model worked on.
C33_SameKindLoadAndGenerate ==
    \A c \in DOMAIN chat_sessions :
        LET h == chat_sessions[c].llm_handler
        IN  /\ LoadKind(h) = Priority(config)
            /\ Kind(h) = Priority(config)
            /\ (h.prepared # "" /\ last.op = "generate_response" /\ last.client = c
                  /\ io.called) => BackendOf(io.request) = h.prepared

\* with the llama-cpp and the daemon flag both set, load_model loaded the
\* model file and the generation went to the loaded model
C33_Witness ==
    /\ config.use_llama_cpp
    /\ config.use_ollama
    /\ ~config.production
    /\ last.op = "generate_response"
    /\ io.called
    /\ io.request = <<"create_chat_completion">>
    /\ chat_sessions[last.client].llm_handler.prepared = "native_binding"


Paired(h) ==
    /\ h # <<>>
    /\ h[1].role = "system"
    /\ (Len(h) - 1) % 2 = 0
    /\ \A k \in 1..((Len(h) - 1) \div 2) :
          h[2 * k].role = "user" /\ h[2 * k + 1].role = "assistant"

\* C35: when the history was cleared while the generation thread was at
\* work, then once that thread has finished chat_history is the system
\* message followed by complete user/assistant pairs only.
C35_ClearDuringTurn ==
    (ui.present /\ ui.threads = <<>> /\ ui.cleared) => Paired(History(UiClient))


\* a generation thread is at work, or the callback it queued when it ended
\* has not run yet
Outstanding ==
    \/ ui.threads # <<>>
    \/ \E k \in DOMAIN ui.after :
          ui.after[k].name \in {"_update_ui_after_response", "_update_ui_after_error"}

\* C36: is_generating is true, and the send button disabled, exactly while
\* a turn started by send_message is outstanding, and a turn that was
\* started ends with is_generating false and the button enabled again.
C36_GeneratingEnds ==
    /\ [](ui.present =>
            /\ ui.is_generating <=> Outstanding
            /\ ui.is_generating <=> ui.send_button = "disabled")
    /\ (ui.is_generating ~> (~ui.is_generating /\ ui.send_button = "normal"))

\* the callback of a finished turn has reset the flag and the button
C36_Witness ==
    /\ last.op = "_update_ui_after_response"
    /\ ui.sends >= 1
    /\ ~ui.is_generating
    /\ ui.send_button = "normal"


\* C34: at most one get_response call is in progress on a session. In the
\* desktop program at most one generation thread exists and a send while
\* is_generating is true starts none and touches nothing of the session; in
\* the server, while a turn is inside generate_response the shared session's
\* history is the one the turn passed, and the only step taken is the
\* return of that turn.
C34_OneTurnAtATime ==
    /\ [](ui.present => Len(ui.threads) <= 1)
    /\ []((~ui.present /\ gen.active) => History(gen.client) = gen.messages)
    /\ [][(ui.present /\ ui.is_generating /\ last'.op = "send_message") =>
            /\ ui'.threads = ui.threads
            /\ ui'.is_generating
            /\ chat_sessions' = chat_sessions]_vars
    /\ [][(~ui.present /\ gen.active) =>
            /\ last'.op = "get_response"
            /\ last'.client = gen.client
            /\ ~gen'.active]_vars

\* a send was refused while the thread of the turn before was at work
C34_Witness ==
    /\ ui.present
    /\ last.op = "send_message"
    /\ last.text # <<>>
    /\ ui.notice = "Generating response, please wait"
    /\ Len(ui.threads) = 1
    /\ ui.threads[1].pc = "generating"

====
